---- MODULE Spec2Model ----
(***************************************************************************)
(* A model of the Ada mapper generator (tools/): the declaration index and *)
(* its alias resolution (types_provider.py), the mapping compiler          *)
(* (generator.py), and the array and enum helper renderers (arrays.py,     *)
(* enums.py).                                                              *)
(*                                                                         *)
(* Python values are represented as follows.                               *)
(*   str            a TLA+ string                                          *)
(*   Optional[T]    <<>> for None and <<v>> for a value v                  *)
(*   dict (by name) a function whose DOMAIN is the set of keys             *)
(*   ordered dict   a sequence of <<key, value>> pairs with distinct keys  *)
(*   list           a sequence                                             *)
(*   emitted Ada    a record [k |-> kind, ...] per kind of expression      *)
(***************************************************************************)
EXTENDS Integers, Sequences, FiniteSets, TLC

VARIABLES
  index,              \* "from"/"to" -> AdaSpecIndex (records, arrays, array_dims, enums, subtypes)
  call,               \* the resolve_* call in progress: its frames' argument, seen set, depth
  mapping_pairs,      \* MapperGenerator.mapping_pairs
  needed_array_maps,  \* MapperGenerator.needed_array_maps
  needed_enum_maps,   \* MapperGenerator.needed_enum_maps
  enum_overrides,     \* MapperGenerator.enum_overrides
  mappings,           \* the mapping entries handed to the compiler
  pc,                 \* position of the run
  out                 \* what the last operation returned or raised

vars == <<index, call, mapping_pairs, needed_array_maps, needed_enum_maps,
          enum_overrides, mappings, pc, out>>

(***************************************************************************)
(* Optional values and ordered dictionaries.                               *)
(***************************************************************************)
NoneVal == <<>>
Some(v) == <<v>>
IsNone(o) == o = <<>>
Val(o) == o[1]

EmptyDict == <<>>
Range(s) == {s[i] : i \in 1..Len(s)}
Keys(d) == {d[i][1] : i \in 1..Len(d)}
HasKey(d, k) == \E i \in 1..Len(d) : d[i][1] = k
Get(d, k) == d[CHOOSE i \in 1..Len(d) : d[i][1] = k][2]
\* d.get(k): None when k is no key of d
DictGet(d, k) == IF HasKey(d, k) THEN Some(Get(d, k)) ELSE NoneVal
SetToSeq(S) ==
  LET RECURSIVE build(_)
      build(T) == IF T = {} THEN <<>>
                  ELSE LET x == CHOOSE y \in T : TRUE IN <<x>> \o build(T \ {x})
  IN build(S)

(***************************************************************************)
(* Strings.  str.lower(), str.strip() and the reference cleaning are given *)
(* by their values on the spellings the model uses; any other spelling is  *)
(* already in normal form.                                                 *)
(***************************************************************************)
LowerTable ==
  LET pairs == {<<"Good", "good">>, <<"GOOD", "good">>, <<"Bad", "bad">>, <<"BAD", "bad">>,
                <<"Unknown", "unknown">>, <<"Red", "red">>, <<"RED", "red">>,
                <<"Green", "green">>, <<"Blue", "blue">>, <<"Cyan", "cyan">>,
                <<"Magenta", "magenta">>, <<"X", "x">>, <<"Y", "y">>, <<"Z", "z">>,
                <<"V", "v">>, <<"Val", "val">>, <<"VAL", "val">>, <<"A", "a">>, <<"B", "b">>,
                <<"Inner", "inner">>, <<"INNER", "inner">>, <<"Extra", "extra">>,
                <<"Data", "data">>, <<"DATA", "data">>, <<"Tag", "tag">>,
                <<"Arr", "arr">>, <<"ARR", "arr">>,
                <<"Node_Access", "node_access">>,
                <<"__DEFAULT__", "__default__">>, <<"__Default__", "__default__">>,
                <<"Nope", "nope">>, <<"Bogus", "bogus">>, <<"Missing", "missing">>,
                <<"Fore", "fore">>, <<"Back", "back">>, <<"Ink", "ink">>}
  IN [s \in {p[1] : p \in pairs} |-> (CHOOSE p \in pairs : p[1] = s)[2]]

Lower(s) == IF s \in DOMAIN LowerTable THEN LowerTable[s] ELSE s

UpperTable ==
  [s \in {"__default__", "__Default__"} |-> "__DEFAULT__"]

Upper(s) == IF s \in DOMAIN UpperTable THEN UpperTable[s] ELSE s

StripTable ==
  [s \in {" A ", " __DEFAULT__ ", "  "} |->
     CASE s = " A " -> "A" [] s = " __DEFAULT__ " -> "__DEFAULT__" [] s = "  " -> ""]

Strip(s) == IF s \in DOMAIN StripTable THEN StripTable[s] ELSE s

\* src/tools/generator.py:13 (constants.DEFAULT_SENTINEL; spelled as in the tests)
DEFAULT_SENTINEL == "__DEFAULT__"

\* A reference with decorative qualifiers, and the reference without them.
QualifierTable ==
  [s \in {"aliased A", "not null B", " A ", "  "} |->
     CASE s = "aliased A" -> "A" [] s = "not null B" -> "B" [] s = " A " -> "A"
       [] s = "  " -> ""]

\* A reference with a constraint suffix "(...)", and the text before the "(".
ParenTable ==
  [s \in {"A (1 .. 4)", "B (1 .. 4)", "C (1 .. 4)", "F_A1 (1 .. 4)", "T_A1 (1 .. 4)"} |->
     CASE s = "A (1 .. 4)" -> "A" [] s = "B (1 .. 4)" -> "B" [] s = "C (1 .. 4)" -> "C"
       [] s = "F_A1 (1 .. 4)" -> "F_A1" [] s = "T_A1 (1 .. 4)" -> "T_A1"]

\* A reference that starts with the root package name, and the rest of it.
RootTable ==
  [s \in {"Types.A", "Types.B"} |-> CASE s = "Types.A" -> "A" [] s = "Types.B" -> "B"]

_clean_reference(ref) == IF ref \in DOMAIN QualifierTable THEN QualifierTable[ref] ELSE ref

SplitParen(s) == IF s \in DOMAIN ParenTable THEN ParenTable[s] ELSE s

normalize_name(name) ==
  LET cleaned == _clean_reference(name) IN
  IF cleaned = "" THEN cleaned
  ELSE LET head == SplitParen(cleaned) IN
       IF head \in DOMAIN RootTable THEN RootTable[head] ELSE head

\* MapperGenerator._base_type: None for a falsy name, else the text before "("
_base_type(type_name) ==
  IF IsNone(type_name) \/ type_name = Some("") THEN NoneVal
  ELSE Some(Strip(SplitParen(Val(type_name))))

(***************************************************************************)
(* AdaSpecIndex: alias resolution.                                         *)
(***************************************************************************)
Kinds == {"record", "array", "dimension", "enum"}

EmptyIndex ==
  [records |-> <<>>, arrays |-> <<>>, array_dims |-> <<>>, enums |-> <<>>, subtypes |-> <<>>]

\* The dictionary each resolve_* method looks its key up in.
Table(idx, kind) ==
  CASE kind = "record" -> idx.records
    [] kind = "array" -> idx.arrays
    [] kind = "dimension" -> idx.array_dims
    [] kind = "enum" -> idx.enums

\* What a resolve_* method returns for a key of its dictionary.
Found(idx, kind, key) ==
  IF kind = "array" THEN _clean_reference(idx.arrays[key]) ELSE Table(idx, kind)[key]

\* One frame of resolve_*: return, or recurse on the alias' base name.
resolve_step_unguarded(idx, kind, name, seen) ==
  LET key == normalize_name(name) IN
  IF key = "" THEN [done |-> TRUE, result |-> NoneVal, seen |-> seen]
  ELSE IF key \in DOMAIN Table(idx, kind)
    THEN [done |-> TRUE, result |-> Some(Found(idx, kind, key)), seen |-> seen]
  ELSE IF key \notin DOMAIN idx.subtypes \/ idx.subtypes[key] = ""
    THEN [done |-> TRUE, result |-> NoneVal, seen |-> seen \cup {key}]
  ELSE IF normalize_name(idx.subtypes[key]) = ""
    THEN [done |-> TRUE, result |-> NoneVal, seen |-> seen \cup {key}]
  ELSE [done |-> FALSE, next |-> normalize_name(idx.subtypes[key]), seen |-> seen \cup {key}]

resolve_step_no_alias(idx, kind, name, seen) ==
  LET key == normalize_name(name) IN
  IF key = "" \/ key \in seen \/ seen # {} THEN [done |-> TRUE, result |-> NoneVal, seen |-> seen]
  ELSE IF key \in DOMAIN Table(idx, kind)
    THEN [done |-> TRUE, result |-> Some(Found(idx, kind, key)), seen |-> seen]
  ELSE IF key \notin DOMAIN idx.subtypes \/ idx.subtypes[key] = ""
    THEN [done |-> TRUE, result |-> NoneVal, seen |-> seen \cup {key}]
  ELSE [done |-> FALSE, next |-> normalize_name(idx.subtypes[key]), seen |-> seen \cup {key}]

resolve_step(idx, kind, name, seen) ==
  LET key == normalize_name(name) IN
  IF key = "" \/ key \in seen THEN [done |-> TRUE, result |-> NoneVal, seen |-> seen]
  ELSE IF key \in DOMAIN Table(idx, kind)
    THEN [done |-> TRUE, result |-> Some(Found(idx, kind, key)), seen |-> seen]
  ELSE IF key \notin DOMAIN idx.subtypes \/ idx.subtypes[key] = ""
    THEN [done |-> TRUE, result |-> NoneVal, seen |-> seen \cup {key}]
  ELSE IF normalize_name(idx.subtypes[key]) = ""
    THEN [done |-> TRUE, result |-> NoneVal, seen |-> seen \cup {key}]
  ELSE [done |-> FALSE, next |-> normalize_name(idx.subtypes[key]), seen |-> seen \cup {key}]

RECURSIVE resolve(_, _, _, _)
\* After a frame: its return value, or the call on the alias' base name.
resolve_from(idx, kind, frame) ==
  IF frame.done THEN frame.result ELSE resolve(idx, kind, frame.next, frame.seen)

resolve(idx, kind, name, seen) == resolve_from(idx, kind, resolve_step(idx, kind, name, seen))

resolve_record_fields(idx, name, seen) == resolve(idx, "record", name, seen)
resolve_array_element(idx, name, seen) == resolve(idx, "array", name, seen)
resolve_array_dimension(idx, name, seen) == resolve(idx, "dimension", name, seen)
resolve_enum_literals(idx, name, seen) == resolve(idx, "enum", name, seen)

(***************************************************************************)
(* RegexTypesProvider: every query is a resolve_* call with a new set().   *)
(***************************************************************************)
get_record_fields(domain, type_name) == resolve_record_fields(index[domain], type_name, {})
get_array_element_type(domain, type_name) == resolve_array_element(index[domain], type_name, {})
get_enum_literals(domain, type_name) == resolve_enum_literals(index[domain], type_name, {})
get_array_dimension(domain, type_name) == resolve_array_dimension(index[domain], type_name, {})

(***************************************************************************)
(* Alias resolution, one frame at a time.  A provider query starts a       *)
(* resolve_* call with an empty seen set; each step runs one frame of the  *)
(* recursion, which returns or calls itself on the alias' base name.       *)
(***************************************************************************)
\* Nothing generated yet: the record functions and the array and enum helpers, by pair.
NoOutput == [record |-> <<>>, array |-> <<>>, enum |-> <<>>]

IdleCall ==
  [domain |-> "from", kind |-> "record", top |-> "", name |-> "", seen |-> {},
   depth |-> 0, status |-> "idle", result |-> NoneVal]

AliasNames == {"A", "B", "C"}
\* What a subtype declaration of the drawn schema may name as its base ("-": no declaration).
AliasExprs == {"-", "A", "B", "C", "C (1 .. 4)"}
\* The concrete declaration of the drawn schema: its name and kind, or none.
ConcreteChoices == {<<"-", "-">>} \cup ({"A", "C"} \X {"record", "array", "enum"})
\* The names a query is made with.
QueryNames == {"A", "C", "U", "", "aliased A", "Types.B"}

SampleFields == << <<"X", "I32">>, <<"Y", "I32">> >>
SampleLiterals == <<"Red", "Green">>

DrawnIndex(subs, conc) ==
  [records    |-> [n \in {m \in AliasNames : conc = <<m, "record">>} |-> SampleFields],
   arrays     |-> [n \in {m \in AliasNames : conc = <<m, "array">>} |-> "I32"],
   array_dims |-> [n \in {m \in AliasNames : conc = <<m, "array">>} |-> 2],
   enums      |-> [n \in {m \in AliasNames : conc = <<m, "enum">>} |-> SampleLiterals],
   subtypes   |-> [n \in {m \in AliasNames : subs[m] # "-"} |-> subs[n]]]

\* The destination schema of the resolution runs: an alias of an alias of an array,
\* and a two-name alias cycle.
ResolveToIndex ==
  [records    |-> <<>>,
   arrays     |-> [n \in {"A"} |-> "I16"],
   array_dims |-> [n \in {"A"} |-> 1],
   enums      |-> <<>>,
   subtypes   |-> [n \in {"B", "C", "U", "V"} |->
                     CASE n = "B" -> "A" [] n = "C" -> "B (1 .. 4)" [] n = "U" -> "V"
                       [] n = "V" -> "U"]]

InitResolve ==
  /\ \E subs \in [AliasNames -> AliasExprs], conc \in ConcreteChoices :
       index = [from |-> DrawnIndex(subs, conc), to |-> ResolveToIndex]
  /\ call = IdleCall
  /\ mapping_pairs = {} /\ needed_array_maps = {} /\ needed_enum_maps = {}
  /\ enum_overrides = <<>> /\ mappings = <<>> /\ pc = "resolve" /\ out = NoOutput

\* RegexTypesProvider.get_*: self._index(domain).resolve_*(type_name, set())
StartResolve(domain, kind, n) ==
  /\ call.status # "running"
  /\ call' = [domain |-> domain, kind |-> kind, top |-> n, name |-> n, seen |-> {},
              depth |-> 1, status |-> "running", result |-> NoneVal]
  /\ UNCHANGED <<index, mapping_pairs, needed_array_maps, needed_enum_maps,
                 enum_overrides, mappings, pc, out>>

\* One frame of the resolve_* call in progress.
StepResolve ==
  /\ call.status = "running"
  /\ LET s == resolve_step(index[call.domain], call.kind, call.name, call.seen) IN
       call' = IF s.done
                 THEN [call EXCEPT !.status = "returned", !.result = s.result, !.seen = s.seen]
                 ELSE [call EXCEPT !.name = s.next, !.seen = s.seen, !.depth = call.depth + 1]
  /\ UNCHANGED <<index, mapping_pairs, needed_array_maps, needed_enum_maps,
                 enum_overrides, mappings, pc, out>>

NextResolve ==
  \/ \E domain \in {"from", "to"}, kind \in Kinds, n \in QueryNames : StartResolve(domain, kind, n)
  \/ StepResolve

SpecResolve == InitResolve /\ [][NextResolve]_vars

(***************************************************************************)
(* The alias chain of a name, stated without the seen set: the name, the   *)
(* base of its subtype declaration, the base of that, ...; "" past its end.*)
(***************************************************************************)
Hop(idx, key) ==
  IF key \in DOMAIN idx.subtypes /\ idx.subtypes[key] # ""
    THEN normalize_name(idx.subtypes[key]) ELSE ""

RECURSIVE ChainAt(_, _, _)
ChainAt(idx, name, k) ==
  IF k = 0 THEN normalize_name(name)
  ELSE LET p == ChainAt(idx, name, k - 1) IN IF p = "" THEN "" ELSE Hop(idx, p)

\* Every chain longer than this revisits a name.
ChainBound(idx) == Cardinality(DOMAIN idx.subtypes) + 1

\* The positions of the chain that hold a concrete declaration of the kind.
Hits(idx, kind, name) ==
  {k \in 0..ChainBound(idx) : ChainAt(idx, name, k) \in DOMAIN Table(idx, kind)}

Min(S) == CHOOSE x \in S : \A y \in S : x <= y

\* The declaration of the kind that the chain of the name reaches first, if any.
ChainTarget(idx, kind, name) ==
  IF Hits(idx, kind, name) = {} THEN NoneVal
  ELSE LET key == ChainAt(idx, name, Min(Hits(idx, kind, name))) IN
       Some(IF kind = "array" THEN idx.arrays[key] ELSE Table(idx, kind)[key])

\* The chain of the name runs into a cycle before it reaches a declaration of the kind.
CyclicChain(idx, kind, name) ==
  \A k \in 0..ChainBound(idx) :
    ChainAt(idx, name, k) # "" /\ ChainAt(idx, name, k) \notin DOMAIN Table(idx, kind)

\* C1: each resolve_* call terminates (its depth never exceeds the number of subtype
\* declarations plus one, and a running call can always take its next frame), its seen
\* set holds exactly the names its own frames visited (nothing of an earlier call),
\* and a call on a chain that runs into a cycle returns None.
C1_ResolveTerminates ==
  /\ call.depth <= ChainBound(index[call.domain])
  /\ call.status = "running" =>
       /\ ENABLED StepResolve
       /\ call.seen = {ChainAt(index[call.domain], call.top, j) : j \in 0..(call.depth - 2)}
  /\ (call.status = "returned"
        /\ CyclicChain(index[call.domain], call.kind, call.top)) => IsNone(call.result)

\* a query on a three-name alias cycle has returned
C1_Witness ==
  /\ call.status = "returned"
  /\ CyclicChain(index[call.domain], call.kind, call.top)
  /\ call.depth = 4
  /\ call.seen = AliasNames
  /\ IsNone(call.result)

\* C2: resolve_record_fields, resolve_array_element and resolve_enum_literals return
\* the declaration of their kind that the alias chain of the name reaches first, and
\* None when the name is unknown or the chain reaches no such declaration.
C2_ResolveFollowsChain ==
  (call.status = "returned" /\ call.kind \in {"record", "array", "enum"}) =>
    call.result = ChainTarget(index[call.domain], call.kind, call.top)

\* a query through two aliases has returned the declaration at the end of the chain
C2_Witness ==
  /\ call.status = "returned"
  /\ call.kind \in {"record", "array", "enum"}
  /\ call.depth = 3
  /\ ~IsNone(call.result)

(***************************************************************************)
(* enums.py: enum_map_body.                                                *)
(***************************************************************************)
\* {n.lower(): n for n in literals}: of two literals with one lower-case form the later wins
lookup_get(literals, lowered) ==
  LET at == {i \in 1..Len(literals) : Lower(literals[i]) = lowered} IN
  IF at = {} THEN NoneVal ELSE Some(literals[CHOOSE i \in at : \A j \in at : j <= i])

\* The package segments of a type name: name.split(".")[:-1]
PkgTable == [s \in {"Pkg.Status_T"} |-> <<"Pkg">>]
pkg_parts(name) == IF name \in DOMAIN PkgTable THEN PkgTable[name] ELSE <<>>

qualify(root, parts, literal) ==
  SelectSeq(<<root>> \o parts \o <<literal>>, LAMBDA part : part # "")

\* mg.enum_overrides.get((src_enum, dst_enum)), an ordered dict, or None
raw_override_of(src_enum, dst_enum) ==
  IF src_enum # "" /\ dst_enum # "" /\ <<src_enum, dst_enum>> \in DOMAIN enum_overrides
    THEN Some(enum_overrides[<<src_enum, dst_enum>>]) ELSE NoneVal

\* The entries of the raw table that the override loop rejects.
bad_override_entries(raw, from_enums, to_enums) ==
  {i \in 1..Len(raw) :
     \/ IsNone(lookup_get(from_enums, Lower(Strip(raw[i][1]))))
     \/ IsNone(lookup_get(to_enums, Lower(Strip(raw[i][2]))))}

\* override[src_lookup[src_key]] = dest_lookup[dst_key], in the order of the raw table
override_get(raw, from_enums, to_enums, literal) ==
  LET at == {i \in 1..Len(raw) : lookup_get(from_enums, Lower(Strip(raw[i][1]))) = Some(literal)} IN
  IF at = {} THEN NoneVal
  ELSE lookup_get(to_enums, Lower(Strip(raw[CHOOSE i \in at : \A j \in at : j <= i][2])))

arm_target_by_position(raw, from_enums, to_enums, i) ==
  IF i <= Len(to_enums) THEN Some(to_enums[i])
  ELSE lookup_get(to_enums, Lower(from_enums[i]))

arm_target_position_fallback(raw, from_enums, to_enums, i) ==
  LET target == override_get(raw, from_enums, to_enums, from_enums[i]) IN
  IF ~IsNone(target) THEN target
  ELSE IF ~IsNone(lookup_get(to_enums, Lower(from_enums[i])))
    THEN lookup_get(to_enums, Lower(from_enums[i]))
  ELSE IF i <= Len(to_enums) THEN Some(to_enums[i]) ELSE NoneVal

arm_target_name_first(raw, from_enums, to_enums, i) ==
  LET target == lookup_get(to_enums, Lower(from_enums[i])) IN
  IF IsNone(target) THEN override_get(raw, from_enums, to_enums, from_enums[i]) ELSE target

\* The destination literal of the i-th source literal: the override, else the same name.
arm_target(raw, from_enums, to_enums, i) ==
  LET target == override_get(raw, from_enums, to_enums, from_enums[i]) IN
  IF IsNone(target) THEN lookup_get(to_enums, Lower(from_enums[i])) ELSE target

OrEmpty(o) == IF IsNone(o) THEN <<>> ELSE Val(o)

enum_map_body(src_enum, dst_enum) ==
  LET to_enums == OrEmpty(get_enum_literals("to", dst_enum))
      from_enums == OrEmpty(get_enum_literals("from", src_enum))
      raw == OrEmpty(raw_override_of(src_enum, dst_enum))
      bad == bad_override_entries(raw, from_enums, to_enums)
  IN
  IF to_enums = <<>> \/ from_enums = <<>>
    THEN [raised |-> TRUE, error |-> "requires visible enum literals",
          types |-> {src_enum, dst_enum}, literals |-> <<>>]
  ELSE IF bad # {}
    THEN LET i == Min(bad) IN
         IF IsNone(lookup_get(from_enums, Lower(Strip(raw[i][1]))))
           THEN [raised |-> TRUE, error |-> "override references unknown literal",
                 types |-> {src_enum}, literals |-> <<raw[i][1]>>]
           ELSE [raised |-> TRUE, error |-> "override targets unknown literal",
                 types |-> {dst_enum}, literals |-> <<raw[i][2]>>]
  ELSE LET n == Len(from_enums)
           missing == SelectSeq(from_enums,
                        LAMBDA lit : \E i \in 1..n :
                          from_enums[i] = lit /\ IsNone(arm_target(raw, from_enums, to_enums, i)))
       IN
       IF missing # <<>>
         THEN [raised |-> TRUE, error |-> "missing mapping for",
               types |-> {src_enum, dst_enum}, literals |-> missing]
         ELSE [raised |-> FALSE, src |-> src_enum, dst |-> dst_enum,
               arms |-> [i \in 1..n |->
                  [when |-> qualify("Types_From", pkg_parts(src_enum), from_enums[i]),
                   to   |-> qualify("Types_To", pkg_parts(dst_enum),
                                    Val(arm_target(raw, from_enums, to_enums, i)))]]]

(***************************************************************************)
(* Rendering one enum helper: the source and destination enums and the     *)
(* override table of the pair are drawn; the tables are those validation   *)
(* lets through (keys and values are literals of the two enums, in any     *)
(* letter case), and no enum declares one literal twice.                   *)
(***************************************************************************)
MaxLiterals == 3
MaxOverrides == 2

SourceLiteralPool == {"Good", "Bad", "Red"}
DestLiteralPool == {"Good", "BAD", "Cyan"}
OverrideKeyPool == {"Good", "bad", "RED"}
OverrideValuePool == {"good", "BAD", "Cyan"}

\* The sequences of distinct elements of S of length lo..hi
InjectiveSeqs(S, lo, hi) ==
  UNION {{q \in [1..n -> S] : \A i, j \in 1..n : i # j => q[i] # q[j]} : n \in lo..hi}

OverrideTables ==
  UNION {{t \in [1..n -> OverrideKeyPool \X OverrideValuePool] :
            \A i, j \in 1..n : i # j => t[i][1] # t[j][1]} : n \in 0..MaxOverrides}

EnumPairs == {<<"Status_F", "Status_T">>, <<"St_F", "Pkg.Status_T">>}

EnumIndex(name, alias, literals) ==
  [EmptyIndex EXCEPT !.enums = (name :> literals), !.subtypes = (alias :> name)]

InitEnum ==
  /\ \E from_lits \in InjectiveSeqs(SourceLiteralPool, 1, MaxLiterals),
        to_lits \in InjectiveSeqs(DestLiteralPool, 1, MaxLiterals),
        table \in OverrideTables, pair \in EnumPairs :
       /\ bad_override_entries(table, from_lits, to_lits) = {}
       /\ index = [from |-> EnumIndex("Status_F", "St_F", from_lits),
                   to |-> EnumIndex(pair[2], "St_T", to_lits)]
       /\ needed_enum_maps = {pair}
       /\ enum_overrides = IF table = <<>> THEN <<>> ELSE (pair :> table)
  /\ call = IdleCall /\ mapping_pairs = {} /\ needed_array_maps = {}
  /\ mappings = <<>> /\ pc = "render" /\ out = NoOutput

\* The caller renders the helper of a pair of the enum need-set; an error aborts the run.
RenderEnum(pair) ==
  /\ pc = "render"
  /\ pair \in needed_enum_maps
  /\ pair \notin DOMAIN out.enum
  /\ out' = [out EXCEPT !.enum = @ @@ (pair :> enum_map_body(pair[1], pair[2]))]
  /\ pc' = IF enum_map_body(pair[1], pair[2]).raised THEN "aborted" ELSE pc
  /\ UNCHANGED <<index, call, mapping_pairs, needed_array_maps, needed_enum_maps,
                 enum_overrides, mappings>>

NextEnum == \E pair \in needed_enum_maps : RenderEnum(pair)

SpecEnum == InitEnum /\ [][NextEnum]_vars

\* The literals and the raw override table of a pair of the enum need-set.
FromLits(pair) == OrEmpty(get_enum_literals("from", pair[1]))
ToLits(pair) == OrEmpty(get_enum_literals("to", pair[2]))
RawTable(pair) == IF pair \in DOMAIN enum_overrides THEN enum_overrides[pair] ELSE <<>>
\* The entries of the override table that list a source literal, in any letter case.
Listing(pair, lit) ==
  {i \in 1..Len(RawTable(pair)) : Lower(Strip(RawTable(pair)[i][1])) = Lower(lit)}
SameName(a, b) == Lower(a) = Lower(b)
Last(q) == q[Len(q)]
Rendered(pair) == pair \in DOMAIN out.enum /\ ~out.enum[pair].raised

\* C8: a rendered enum helper has one arm per source literal, in declaration order,
\* and an arm whose literal has no override goes to the destination literal of the
\* same name, whatever the positions of the two.
C8_ArmsByName ==
  \A pair \in DOMAIN out.enum : ~out.enum[pair].raised =>
    /\ Len(out.enum[pair].arms) = Len(FromLits(pair))
    /\ \A i \in 1..Len(FromLits(pair)) :
         /\ Last(out.enum[pair].arms[i].when) = FromLits(pair)[i]
         /\ Listing(pair, FromLits(pair)[i]) = {} =>
              /\ Last(out.enum[pair].arms[i].to) \in Range(ToLits(pair))
              /\ SameName(Last(out.enum[pair].arms[i].to), FromLits(pair)[i])

\* the two enums declare the same names in another order, and the helper is rendered
C8_Witness ==
  \E pair \in DOMAIN out.enum :
    /\ ~out.enum[pair].raised /\ RawTable(pair) = <<>>
    /\ Len(FromLits(pair)) = 2 /\ Len(ToLits(pair)) = 2
    /\ \A i \in 1..2 : ~SameName(FromLits(pair)[i], ToLits(pair)[i])
    /\ \A i \in 1..2 : SameName(Last(out.enum[pair].arms[i].to), FromLits(pair)[i])

\* The source literals with neither an override nor a same-named destination literal.
Unresolved(pair) ==
  {lit \in Range(FromLits(pair)) :
     Listing(pair, lit) = {} /\ \A t \in Range(ToLits(pair)) : ~SameName(t, lit)}

C10_PartialOverride ==
  \A pair \in DOMAIN out.enum : ~out.enum[pair].raised =>
    \A i \in 1..Len(FromLits(pair)) :
      /\ Last(out.enum[pair].arms[i].to) \in Range(ToLits(pair))
      /\ \A e \in Listing(pair, FromLits(pair)[i]) :
           SameName(Last(out.enum[pair].arms[i].to), Strip(RawTable(pair)[e][2]))
      /\ Listing(pair, FromLits(pair)[i]) = {} =>
           SameName(Last(out.enum[pair].arms[i].to), FromLits(pair)[i])

\* a listed literal that has a same-named destination literal goes elsewhere, its key
\* and value are not in the declared spelling, and another literal goes by name
C10_Witness ==
  \E pair \in DOMAIN out.enum :
    /\ ~out.enum[pair].raised
    /\ \E i, j \in 1..Len(FromLits(pair)) :
         /\ Listing(pair, FromLits(pair)[i]) # {}
         /\ \E t \in Range(ToLits(pair)) : SameName(t, FromLits(pair)[i])
         /\ ~SameName(Last(out.enum[pair].arms[i].to), FromLits(pair)[i])
         /\ \E e \in Listing(pair, FromLits(pair)[i]) :
              /\ RawTable(pair)[e][1] # FromLits(pair)[i]
              /\ RawTable(pair)[e][2] # Last(out.enum[pair].arms[i].to)
         /\ Listing(pair, FromLits(pair)[j]) = {}

(***************************************************************************)
(* generator.py: type queries of MapperGenerator.  parsed_to, parsed_from  *)
(* and their lower-case companions memoize provider answers that never     *)
(* change during a run, so a query is modelled by the provider's answer.   *)
(***************************************************************************)
\* Truth value of an Optional[str] and of an Optional[dict or list]
TruthyStr(o) == ~IsNone(o) /\ Val(o) # ""
TruthyDict(o) == ~IsNone(o) /\ Len(Val(o)) > 0

get_to_fields(tname) ==
  IF ~TruthyStr(tname) THEN NoneVal
  ELSE IF ~TruthyStr(_base_type(tname)) THEN NoneVal
  ELSE get_record_fields("to", Val(_base_type(tname)))

get_from_fields(tname) ==
  IF ~TruthyStr(tname) THEN NoneVal
  ELSE IF ~TruthyStr(_base_type(tname)) THEN NoneVal
  ELSE get_record_fields("from", Val(_base_type(tname)))

to_array_elem(tname) ==
  IF ~TruthyStr(tname) THEN NoneVal
  ELSE IF ~TruthyStr(_base_type(tname)) THEN NoneVal
  ELSE get_array_element_type("to", Val(_base_type(tname)))

from_array_elem(tname) ==
  IF ~TruthyStr(tname) THEN NoneVal
  ELSE IF ~TruthyStr(_base_type(tname)) THEN NoneVal
  ELSE get_array_element_type("from", Val(_base_type(tname)))

\* The first key of an ordered dict that equals the name in lower case: next(k for k ...)
first_key_ignoring_case(fields, name) ==
  LET at == {i \in 1..Len(fields) : Lower(fields[i][1]) = Lower(name)} IN
  IF at = {} THEN NoneVal ELSE Some(fields[Min(at)][1])

\* parsed_from_lower[base].get(name.lower()): {k.lower(): k for k in fields}
lower_map_get(fields, name) ==
  LET at == {i \in 1..Len(fields) : Lower(fields[i][1]) = Lower(name)} IN
  IF at = {} THEN NoneVal ELSE Some(fields[CHOOSE i \in at : \A j \in at : j <= i][1])

\* Emitted expressions.  An access is the source expression: a root name, the
\* indices applied to it, and the selected field path.
Access(root, idx, path) == [root |-> root, idx |-> idx, path |-> path]
Select(access, field) == [access EXCEPT !.path = Append(@, field)]
MapCall(access) == [k |-> "Map", arg |-> access]
Cast(type, access) == [k |-> "cast", type |-> type, arg |-> access]
Bare(access) == [k |-> "expr", arg |-> access]
\* format_record_aggregate: the associations, in order
format_record_aggregate(parts) == [k |-> "aggregate", parts |-> parts]
Part(dest, expr, comment) == [dest |-> dest, expr |-> expr, comment |-> comment]

(***************************************************************************)
(* arrays.py: array_map_body.                                              *)
(***************************************************************************)
idx_names == <<"I", "J", "K", "L", "M">>

\* idx_names[:dims]
loop_indices(dims) == SubSeq(idx_names, 1, IF dims <= Len(idx_names) THEN dims ELSE Len(idx_names))

\* The aggregate written for an element pair of records without conversion.
inline_element_aggregate(to_fields, from_fields, dst_elem, access_expr) ==
  format_record_aggregate(
    [i \in 1..Len(to_fields) |->
       LET d_name == to_fields[i][1]
           d_ftype == to_fields[i][2]
           s_name == IF HasKey(from_fields, d_name) THEN Some(d_name)
                     ELSE first_key_ignoring_case(from_fields, d_name)
       IN IF IsNone(s_name)
            THEN Part(d_name, Cast(dst_elem, access_expr), NoneVal)
            ELSE Part(d_name, Cast(d_ftype, Select(access_expr, Val(s_name))), NoneVal)])

array_elem_expr_cast_only(src_elem, dst_elem, access_expr) ==
  IF dst_elem # "" THEN Cast(dst_elem, access_expr) ELSE Bare(access_expr)

\* elem_expr when the element pair has no Map: the aggregate written in place for two
\* records, else the cast to the destination element type.
element_without_map(to_fields, from_fields, dst_elem, access_expr) ==
  IF to_fields # <<>> /\ from_fields # <<>>
    THEN inline_element_aggregate(to_fields, from_fields, dst_elem, access_expr)
  ELSE IF dst_elem # "" THEN Cast(dst_elem, access_expr) ELSE Bare(access_expr)

\* elem_expr of array_map_body
array_elem_expr(src_elem, dst_elem, access_expr) ==
  IF <<src_elem, dst_elem>> \in mapping_pairs \/ <<src_elem, dst_elem>> \in needed_array_maps
    THEN MapCall(access_expr)
  ELSE IF /\ TruthyStr(IF dst_elem # "" THEN to_array_elem(Some(dst_elem)) ELSE NoneVal)
          /\ TruthyStr(IF src_elem # "" THEN from_array_elem(Some(src_elem)) ELSE NoneVal)
    THEN MapCall(access_expr)
  ELSE element_without_map(OrEmpty(get_to_fields(Some(dst_elem))),
                           OrEmpty(get_from_fields(Some(src_elem))), dst_elem, access_expr)

\* mg.from_array_elem(src_arr) or ""
elem_or_empty(elem) == IF TruthyStr(elem) THEN Val(elem) ELSE ""

\* dims = get_array_dimension("to", dst_arr); if not dims: dims = 1
dims_or_one(got) == IF IsNone(got) \/ got = Some(0) THEN 1 ELSE Val(got)

\* The loops and the assignment of the helper, for the index variables of its loops.
array_loops(src_arr, dst_arr, src_elem, dst_elem, dims, indices) ==
  [src |-> src_arr, dst |-> dst_arr,
   loops |-> [level \in 1..Len(indices) |-> [var |-> indices[level], range |-> level]],
   assign |-> [dest |-> IF dims > 1 THEN indices ELSE <<"I">>,
               expr |-> array_elem_expr(src_elem, dst_elem,
                          Access("A", IF dims > 1 THEN indices ELSE <<"I">>, <<>>))]]

array_map_dims(src_arr, dst_arr, src_elem, dst_elem, dims) ==
  array_loops(src_arr, dst_arr, src_elem, dst_elem, dims, loop_indices(dims))

array_map_body(src_arr, dst_arr) ==
  array_map_dims(src_arr, dst_arr,
                 elem_or_empty(from_array_elem(Some(src_arr))),
                 elem_or_empty(to_array_elem(Some(dst_arr))),
                 dims_or_one(get_array_dimension("to", dst_arr)))

(***************************************************************************)
(* Rendering one array helper: the dimensions and element types of the two *)
(* arrays are drawn, and whether the element pair has a declared           *)
(* conversion.                                                             *)
(***************************************************************************)
MaxDims == 6

SourceElems == {"I32", "F_In", "F_Rec"}
DestElems == {"I16", "T_In", "T_Rec"}
ArrayPairs == {<<"F_Arr", "T_Arr">>, <<"F_Arr", "T_Sub">>}

ArrayFromIndex(elem, dims) ==
  [EmptyIndex EXCEPT
     !.records = ("F_Rec" :> << <<"X", "I32">>, <<"Y", "I32">> >>),
     !.arrays = ("F_Arr" :> elem) @@ ("F_In" :> "I32"),
     !.array_dims = ("F_Arr" :> dims) @@ ("F_In" :> 1)]

ArrayToIndex(elem, dims) ==
  [EmptyIndex EXCEPT
     !.records = ("T_Rec" :> << <<"X", "I16">>, <<"y", "I16">>, <<"Z", "I16">> >>),
     !.arrays = ("T_Arr" :> elem) @@ ("T_In" :> "I16"),
     !.array_dims = ("T_Arr" :> dims) @@ ("T_In" :> 1),
     !.subtypes = ("T_Sub" :> "T_Arr")]

InitArray ==
  /\ \E se \in SourceElems, de \in DestElems, sd \in 1..2, dd \in 1..MaxDims,
        pair \in ArrayPairs, declared \in SUBSET {<<"F_Rec", "T_Rec">>} :
       /\ index = [from |-> ArrayFromIndex(se, sd), to |-> ArrayToIndex(de, dd)]
       /\ needed_array_maps = {pair}
       /\ mapping_pairs = declared
  /\ call = IdleCall /\ needed_enum_maps = {} /\ enum_overrides = <<>>
  /\ mappings = <<>> /\ pc = "render" /\ out = NoOutput

\* The caller renders the helper of a pair of the array need-set.
RenderArray(pair) ==
  /\ pc = "render"
  /\ pair \in needed_array_maps
  /\ pair \notin DOMAIN out.array
  /\ out' = [out EXCEPT !.array = @ @@ (pair :> array_map_body(pair[1], pair[2]))]
  /\ UNCHANGED <<index, call, mapping_pairs, needed_array_maps, needed_enum_maps,
                 enum_overrides, mappings, pc>>

NextArray == \E pair \in needed_array_maps : RenderArray(pair)

SpecArray == InitArray /\ [][NextArray]_vars

\* The declared dimension count of the destination array of a pair.
DeclaredDims(pair) == Val(get_array_dimension("to", pair[2]))

\* C7: the helper of an array pair has as many nested loops as the destination array
\* type declares dimensions, each with its own index variable, and the assignment
\* indexes the destination with exactly those indices.
C7_LoopPerDimension ==
  \A pair \in DOMAIN out.array :
    LET body == out.array[pair] IN
    /\ Len(body.loops) = DeclaredDims(pair)
    /\ Cardinality({body.loops[i].var : i \in 1..Len(body.loops)}) = DeclaredDims(pair)
    /\ body.assign.dest = [i \in 1..DeclaredDims(pair) |-> body.loops[i].var]

(***************************************************************************)
(* generator.py: default_expr.  The seen set is one object shared by the   *)
(* whole recursion, so each call returns the set it leaves behind.         *)
(***************************************************************************)
\* The names in which str.lower() contains "access"
AccessNames == {"Node_Access"}

Box == [k |-> "box"]
First(type) == [k |-> "first", type |-> type]
Null == [k |-> "null"]
Literal(name) == [k |-> "literal", name |-> name]
\* <type>'( f => e, ... )
QualifiedAggregate(type, parts) == [k |-> "qualified", type |-> type, parts |-> parts]
\* (others => ...) nested dims times around elem, qualified by the type name or not
Others(dims, elem, qualifier) ==
  [k |-> "others", dims |-> dims, elem |-> elem, qualifier |-> qualifier]

RECURSIVE default_expr(_, _)
RECURSIVE default_fields(_, _, _)

\* The default of a record type from the defaults of its fields.
record_default(base_type, inner) ==
  [expr |-> QualifiedAggregate(base_type, inner.parts), seen |-> inner.seen]

\* The default of an array type, were it one others-constructor whatever the dimension.
array_default_one_level(stripped, base_type, got, elem_default) ==
  [expr |-> Others(1, elem_default.expr,
                   IF stripped # base_type THEN NoneVal ELSE Some(base_type)),
   seen |-> elem_default.seen]

\* The default of an array type from the default of its element.
array_default(stripped, base_type, got, elem_default) ==
  [expr |-> Others(IF IsNone(got) THEN 1 ELSE Val(got), elem_default.expr,
                   IF stripped # base_type THEN NoneVal ELSE Some(base_type)),
   seen |-> elem_default.seen]

prepend_default(fname, expr, rest) ==
  [parts |-> <<[dest |-> fname, expr |-> expr]>> \o rest.parts, seen |-> rest.seen]

\* The defaults of the fields from the i-th on, after the default of the i-th.
default_fields_after(record_fields, i, one) ==
  prepend_default(record_fields[i][1], one.expr, default_fields(record_fields, i + 1, one.seen))

\* for fname, ftype in record_fields.items(): parts.append(... default_expr(ftype, seen))
default_fields(record_fields, i, seen) ==
  IF i > Len(record_fields) THEN [parts |-> <<>>, seen |-> seen]
  ELSE default_fields_after(record_fields, i, default_expr(Some(record_fields[i][2]), seen))

\* default_expr for a record, an array, an enum, an access type, any other type: the
\* first of the three queries that has an answer decides.
default_of_kind(stripped, base_type, record_fields, array_elem, enum_literals, seen1) ==
  IF TruthyDict(record_fields)
    THEN record_default(base_type, default_fields(Val(record_fields), 1, seen1))
  ELSE IF TruthyStr(array_elem)
    THEN array_default(stripped, base_type, get_array_dimension("to", base_type),
                       default_expr(array_elem, seen1))
  ELSE IF TruthyDict(enum_literals)
    THEN [expr |-> Literal(Val(enum_literals)[1]), seen |-> seen1]
  ELSE IF base_type \in AccessNames THEN [expr |-> Null, seen |-> seen1]
  ELSE [expr |-> First(base_type), seen |-> seen1]

\* default_expr from base_type = self._base_type(type_name) on
default_of_base(stripped, base_type, seen1) ==
  IF ~TruthyStr(base_type) THEN [expr |-> Box, seen |-> seen1]
  ELSE default_of_kind(stripped, Val(base_type), get_to_fields(base_type),
                       to_array_elem(base_type), get_enum_literals("to", Val(base_type)),
                       seen1)

\* default_expr from the stripped name on, were a type met again left to the compiler.
default_of_stripped_box_again(stripped, seen) ==
  IF stripped = "" THEN [expr |-> Box, seen |-> seen]
  ELSE IF stripped \in seen THEN [expr |-> Box, seen |-> seen]
  ELSE default_of_base(stripped, _base_type(Some(stripped)), seen \cup {stripped})

\* default_expr from type_name = type_name.strip() on
default_of_stripped(stripped, seen) ==
  IF stripped = "" THEN [expr |-> Box, seen |-> seen]
  ELSE IF stripped \in seen THEN [expr |-> First(stripped), seen |-> seen]
  ELSE default_of_base(stripped, _base_type(Some(stripped)), seen \cup {stripped})

default_expr(type_name, seen) ==
  IF ~TruthyStr(type_name) THEN [expr |-> Box, seen |-> seen]
  ELSE default_of_stripped(Strip(Val(type_name)), seen)

(***************************************************************************)
(* generator.py: value_expr.  A call returns the expression and its        *)
(* comment, and the pairs it added to the two need-sets.                   *)
(***************************************************************************)
\* Depth of nested value_expr calls at which the interpreter raises RecursionError
RecursionLimit == 6

DefaultedComment == Some("defaulted (__DEFAULT__)")

\* src_expr.strip().upper() == DEFAULT_SENTINEL; a selection "a.b" never is the sentinel
is_default_access(src_expr) ==
  src_expr.idx = <<>> /\ src_expr.path = <<>> /\ Upper(Strip(src_expr.root)) = DEFAULT_SENTINEL

\* (src_t.strip(), dst_t.strip()) in self.mapping_pairs
declared_never(src_t, dst_t) == FALSE

declared_conversion(src_t, dst_t) ==
  TruthyStr(src_t) /\ TruthyStr(dst_t) /\ <<Strip(Val(src_t)), Strip(Val(dst_t))>> \in mapping_pairs

both_records(dst_t, src_t) == TruthyDict(get_to_fields(dst_t)) /\ TruthyDict(get_from_fields(src_t))

both_arrays(dst_t, src_t) == TruthyStr(to_array_elem(dst_t)) /\ TruthyStr(from_array_elem(src_t))

both_enums(dst_t, src_t) ==
  /\ TruthyStr(_base_type(dst_t)) /\ TruthyStr(_base_type(src_t))
  /\ TruthyDict(get_enum_literals("to", Val(_base_type(dst_t))))
  /\ TruthyDict(get_enum_literals("from", Val(_base_type(src_t))))

\* The branch of value_expr that a call takes, were enums tried before records and arrays.
value_case_enums_first(dst_t, src_t, src_expr) ==
  IF is_default_access(src_expr) THEN "default"
  ELSE IF both_enums(dst_t, src_t) THEN "enums"
  ELSE IF both_records(dst_t, src_t) THEN "records"
  ELSE IF both_arrays(dst_t, src_t) THEN "arrays"
  ELSE "cast"

\* The branch of value_expr that a call takes.
value_case(dst_t, src_t, src_expr) ==
  IF is_default_access(src_expr) THEN "default"
  ELSE IF both_records(dst_t, src_t) THEN "records"
  ELSE IF both_arrays(dst_t, src_t) THEN "arrays"
  ELSE IF both_enums(dst_t, src_t) THEN "enums"
  ELSE "cast"

\* The source field a destination field of an inline aggregate is filled from.
matching_source_field(from_fields, d_name) ==
  IF HasKey(from_fields, d_name) THEN Some(d_name)
  ELSE IF ~IsNone(lower_map_get(from_fields, d_name)) THEN lower_map_get(from_fields, d_name)
  ELSE first_key_ignoring_case(from_fields, d_name)

Returned(expr, comment, arrays, enums) ==
  [raised |-> FALSE, expr |-> expr, comment |-> comment, arrays |-> arrays, enums |-> enums]

RecursionError == [raised |-> TRUE, error |-> "RecursionError", arrays |-> {}, enums |-> {}]

RECURSIVE value_expr(_, _, _, _)

\* The inline aggregate of the record case, for the fields of the two records.
record_aggregate(to_fields, from_fields, src_expr, depth) ==
  LET s_name(i) == matching_source_field(from_fields, to_fields[i][1])
      sub == [i \in 1..Len(to_fields) |->
                IF IsNone(s_name(i))
                  THEN Returned(Cast(to_fields[i][2], src_expr), NoneVal, {}, {})
                  ELSE value_expr(Some(to_fields[i][2]),
                                  Some(Get(from_fields, Val(s_name(i)))),
                                  Select(src_expr, Val(s_name(i))), depth + 1)]
  IN IF \E i \in 1..Len(to_fields) : sub[i].raised THEN RecursionError
     ELSE Returned(
            format_record_aggregate(
              [i \in 1..Len(to_fields) |-> Part(to_fields[i][1], sub[i].expr, sub[i].comment)]),
            NoneVal,
            UNION {sub[i].arrays : i \in 1..Len(to_fields)},
            UNION {sub[i].enums : i \in 1..Len(to_fields)})

\* The final return of value_expr, were the source expression returned as it is.
scalar_cast_unconverted(base, dst_t, src_expr) == Bare(src_expr)

\* The final return of value_expr: cast_type = base if base else dst_t
scalar_cast(base, dst_t, src_expr) ==
  IF TruthyStr(base) THEN Cast(Val(base), src_expr)
  ELSE IF TruthyStr(dst_t) THEN Cast(Val(dst_t), src_expr)
  ELSE Bare(src_expr)

\* What value_expr returns in the branch it takes.
value_in_case(case, dst_t, src_t, src_expr, depth) ==
  IF case = "default" THEN Returned(default_expr(dst_t, {}).expr, DefaultedComment, {}, {})
  ELSE IF case = "records" THEN
    IF declared_conversion(src_t, dst_t) THEN Returned(MapCall(src_expr), NoneVal, {}, {})
    ELSE record_aggregate(Val(get_to_fields(dst_t)), Val(get_from_fields(src_t)),
                          src_expr, depth)
  ELSE IF case = "arrays" THEN
    Returned(MapCall(src_expr), NoneVal, {<<Strip(Val(src_t)), Strip(Val(dst_t))>>}, {})
  ELSE IF case = "enums" THEN
    Returned(MapCall(src_expr), NoneVal, {}, {<<Strip(Val(src_t)), Strip(Val(dst_t))>>})
  ELSE Returned(scalar_cast(_base_type(dst_t), dst_t, src_expr), NoneVal, {}, {})

value_expr(dst_t, src_t, src_expr, depth) ==
  IF depth > RecursionLimit THEN RecursionError
  ELSE value_in_case(value_case(dst_t, src_t, src_expr), dst_t, src_t, src_expr, depth)

(***************************************************************************)
(* generator.py: resolve_src_path_type and gen_record_function_body.       *)
(***************************************************************************)
\* A source reference that contains ".", and path.split('.')
DotTable ==
  [s \in {"Inner.Val", "inner.val", "Inner.Missing", "Tag.Val"} |->
     CASE s = "Inner.Val" -> <<"Inner", "Val">> [] s = "inner.val" -> <<"inner", "val">>
       [] s = "Inner.Missing" -> <<"Inner", "Missing">> [] s = "Tag.Val" -> <<"Tag", "Val">>]

SplitDot(src) == IF src \in DOMAIN DotTable THEN DotTable[src] ELSE <<src>>

is_default_sentinel(src) == Upper(Strip(src)) = DEFAULT_SENTINEL

RECURSIVE walk_src_path(_, _, _)
\* One pass of the loop of resolve_src_path_type: the field named by the part, then on.
walk_src_key(field_map, key, parts, i) ==
  IF ~TruthyStr(key) THEN NoneVal
  ELSE walk_src_path(Strip(Get(field_map, Val(key))), parts, i + 1)

walk_src_fields(field_map, parts, i) ==
  IF ~TruthyDict(field_map) THEN NoneVal
  ELSE walk_src_key(Val(field_map), matching_source_field(Val(field_map), parts[i]), parts, i)

\* The loop of resolve_src_path_type from the i-th part on, at type cur_t.
walk_src_path(cur_t, parts, i) ==
  IF i > Len(parts) THEN Some(cur_t)
  ELSE walk_src_fields(get_from_fields(Some(cur_t)), parts, i)

resolve_src_path_type(start_type, path) == walk_src_path(start_type, SplitDot(path), 1)

\* dict.update: a listed key keeps its place and takes the new value, a new key is appended
DictUpdate(d, u) ==
  LET replaced == [i \in 1..Len(d) |-> IF HasKey(u, d[i][1]) THEN <<d[i][1], Get(u, d[i][1])>>
                                       ELSE d[i]]
      fresh == SelectSeq(u, LAMBDA e : ~HasKey(d, e[1]))
  IN replaced \o fresh

Association(dest, expr, comment) == [dest |-> dest, expr |-> expr, comment |-> comment]

\* The state the loop of gen_record_function_body carries from one field to the next.
NoFields(overrides) ==
  [raised |-> FALSE, associations |-> <<>>, arrays |-> {}, enums |-> {}, overrides |-> overrides]

\* self.enum_overrides, were the table of a pair replaced by the overrides of each field.
register_overrides_replacing(overrides, pair, table) ==
  IF pair \in DOMAIN overrides THEN [overrides EXCEPT ![pair] = table]
  ELSE overrides @@ (pair :> table)

\* self.enum_overrides after the registration of the overrides of a field for a pair
register_overrides(overrides, pair, table) ==
  IF pair \in DOMAIN overrides THEN [overrides EXCEPT ![pair] = DictUpdate(@, table)]
  ELSE overrides @@ (pair :> table)

\* One pass of the loop of gen_record_function_body, for a field that is not defaulted:
\* the registration of an enum pair and its overrides, then the association.
gen_record_field(before, dest, d_t, s_t, value, field_enum_overrides) ==
  LET registers == TruthyStr(d_t) /\ TruthyStr(s_t) /\ both_enums(d_t, s_t)
      pair == <<Strip(Val(s_t)), Strip(Val(d_t))>>
      table == IF registers /\ HasKey(field_enum_overrides, dest)
                 THEN register_overrides(before.overrides, pair, Get(field_enum_overrides, dest))
                 ELSE before.overrides
  IN IF value.raised THEN [before EXCEPT !.raised = TRUE, !.overrides = table]
     ELSE [raised |-> FALSE,
           associations |-> Append(before.associations,
                                   Association(dest, value.expr, value.comment)),
           arrays |-> before.arrays \cup value.arrays,
           enums |-> before.enums \cup value.enums \cup (IF registers THEN {pair} ELSE {}),
           overrides |-> table]

\* d_t and s_t of a field of the mapping entry
dest_field_type(dst_type, dest) == DictGet(OrEmpty(get_to_fields(Some(dst_type))), dest)
source_field_type(src_type, src) ==
  IF src \in DOMAIN DotTable THEN resolve_src_path_type(src_type, src)
  ELSE DictGet(OrEmpty(get_from_fields(Some(src_type))), src)

\* One pass of the loop, for the destination field type d_t and the source type s_t.
gen_record_typed_field(before, dest, src, d_t, s_t, field_enum_overrides) ==
  IF is_default_sentinel(src)
    THEN [before EXCEPT !.associations =
            Append(@, Association(dest, default_expr(d_t, {}).expr, DefaultedComment))]
  ELSE gen_record_field(before, dest, d_t, s_t,
                        value_expr(d_t, s_t, Access("X", <<>>, SplitDot(src)), 1),
                        field_enum_overrides)

RECURSIVE gen_record_fields(_, _, _, _, _, _)
\* The loop of gen_record_function_body over the first n entries of fields.
gen_record_fields(src_type, dst_type, fields, field_enum_overrides, overrides, n) ==
  IF n = 0 THEN NoFields(overrides)
  ELSE
  LET before == gen_record_fields(src_type, dst_type, fields, field_enum_overrides,
                                  overrides, n - 1)
  IN IF before.raised THEN before
     ELSE gen_record_typed_field(before, fields[n][1], fields[n][2],
                                 dest_field_type(dst_type, fields[n][1]),
                                 source_field_type(src_type, fields[n][2]),
                                 field_enum_overrides)

gen_record_function_body(src_type, dst_type, fields, field_enum_overrides) ==
  gen_record_fields(src_type, dst_type, fields, field_enum_overrides, enum_overrides,
                    Len(fields))

(***************************************************************************)
(* generator.py: expand_array_pairs_transitively.                          *)
(***************************************************************************)
\* Whether a pass adds the element pair of a pair of the need-set, were pairs of
\* record elements added as well.
element_pair_added_with_records(src_elem, dst_elem) ==
  /\ TruthyStr(src_elem) /\ TruthyStr(dst_elem)
  /\ \/ TruthyStr(from_array_elem(src_elem)) /\ TruthyStr(to_array_elem(dst_elem))
     \/ TruthyDict(get_from_fields(src_elem)) /\ TruthyDict(get_to_fields(dst_elem))

\* Whether a pass adds the element pair of a pair of the need-set, were no pass to add
\* anything.
element_pair_added_never(src_elem, dst_elem) == FALSE

\* Whether a pass adds the element pair of a pair of the need-set.
element_pair_added(src_elem, dst_elem) ==
  /\ TruthyStr(src_elem) /\ TruthyStr(dst_elem)
  /\ TruthyStr(from_array_elem(src_elem)) /\ TruthyStr(to_array_elem(dst_elem))

\* The element pairs that one pass over the need-set finds to add.
element_pairs_of(needed) ==
  {<<from_array_elem(Some(p[1])), to_array_elem(Some(p[2]))>> : p \in needed}

RECURSIVE expand_array_pairs_transitively(_)
\* The need-set after a pass, and another pass while the pass changed it.
expand_after_pass(needed, added) ==
  IF added \subseteq needed THEN needed
  ELSE expand_array_pairs_transitively(needed \cup added)

expand_array_pairs_transitively(needed) ==
  expand_after_pass(needed,
    {<<Val(e[1]), Val(e[2])>> : e \in {x \in element_pairs_of(needed) :
                                         element_pair_added(x[1], x[2])}})

(***************************************************************************)
(* Calling value_expr: the two schemas, the declared conversions and the   *)
(* arguments of one call are drawn.  The name Amb is declared as a record, *)
(* an array and an enum, in any combination, so that several cases of      *)
(* value_expr can apply to one call.                                       *)
(***************************************************************************)
AmbKinds == SUBSET {"record", "array", "enum"}

AmbDecl(kinds, field_type) ==
  [EmptyIndex EXCEPT
     !.records = IF "record" \in kinds THEN ("Amb" :> << <<"Val", field_type>> >>) ELSE <<>>,
     !.arrays = IF "array" \in kinds THEN ("Amb" :> field_type) ELSE <<>>,
     !.array_dims = IF "array" \in kinds THEN ("Amb" :> 1) ELSE <<>>,
     !.enums = IF "enum" \in kinds THEN ("Amb" :> <<"Red">>) ELSE <<>>]

ValueFromIndex(kinds) ==
  LET amb == AmbDecl(kinds, "I32") IN
  [records |-> amb.records @@
               ("F_In" :> << <<"Val", "I32">> >>) @@
               ("F_Out" :> << <<"X", "I32">>, <<"Inner", "F_In">>, <<"Tag", "F_Enum">>,
                              <<"Arr", "F_Arr">> >>),
   arrays |-> amb.arrays @@ ("F_Arr" :> "I32"),
   array_dims |-> amb.array_dims @@ ("F_Arr" :> 1),
   enums |-> amb.enums @@ ("F_Enum" :> <<"Red", "Green">>),
   subtypes |-> ("F_Sub" :> "F_In")]

ValueToIndex(kinds) ==
  LET amb == AmbDecl(kinds, "I16") IN
  [records |-> amb.records @@
               ("T_In" :> << <<"VAL", "I16">> >>) @@
               ("T_Out" :> << <<"x", "I16">>, <<"Inner", "T_In">>, <<"Tag", "T_Enum">>,
                              <<"Arr", "T_Arr">>, <<"Extra", "I16">> >>),
   arrays |-> amb.arrays @@ ("T_Arr" :> "I16"),
   array_dims |-> amb.array_dims @@ ("T_Arr" :> 1),
   enums |-> amb.enums @@ ("T_Enum" :> <<"Green", "Red">>),
   subtypes |-> ("T_Sub" :> "T_In")]

DeclaredChoices == SUBSET {<<"F_In", "T_In">>, <<"F_Out", "T_Out">>, <<"Amb", "Amb">>}

DstTypes ==
  {NoneVal} \cup {Some(t) : t \in {"", "T_In", "T_Out", "T_Sub", "T_Arr", "T_Enum", "Amb", "I16"}}
SrcTypes ==
  {NoneVal} \cup {Some(t) : t \in {"F_In", "F_Out", "F_Sub", "F_Arr", "F_Enum", "Amb", "I32"}}
SrcExprs ==
  {Access("X", <<>>, <<"F">>), Access("__default__", <<>>, <<>>),
   Access(" __DEFAULT__ ", <<>>, <<>>)}

InitValue ==
  /\ \E kinds \in AmbKinds, declared \in DeclaredChoices :
       /\ index = [from |-> ValueFromIndex(kinds), to |-> ValueToIndex(kinds)]
       /\ mapping_pairs = declared
  /\ call = IdleCall /\ needed_array_maps = {} /\ needed_enum_maps = {}
  /\ enum_overrides = <<>> /\ mappings = <<>> /\ pc = "call" /\ out = NoOutput

\* One call of value_expr on a generator that has compiled nothing yet.
CallValueExpr(dst_t, src_t, src_expr) ==
  /\ pc = "call"
  /\ \E result \in {value_expr(dst_t, src_t, src_expr, 1)} :
       /\ call' = [op |-> "value_expr", dst_t |-> dst_t, src_t |-> src_t,
                   src_expr |-> src_expr, result |-> result]
       /\ needed_array_maps' = needed_array_maps \cup result.arrays
       /\ needed_enum_maps' = needed_enum_maps \cup result.enums
  /\ pc' = "returned"
  /\ UNCHANGED <<index, mapping_pairs, enum_overrides, mappings, out>>

NextValue ==
  \E dst_t \in DstTypes, src_t \in SrcTypes, src_expr \in SrcExprs :
    CallValueExpr(dst_t, src_t, src_expr)

SpecValue == InitValue /\ [][NextValue]_vars

\* What the cases of value_expr leave behind, for the call that returned.
NothingRegistered(r) == r.arrays = {} /\ r.enums = {}
TypePairOf(c) == <<Strip(Val(c.src_t)), Strip(Val(c.dst_t))>>

\* Cases (1) to (4): the default, then records, then arrays, then enums.
FirstCasesInOrder(c) ==
  LET r == c.result IN
  /\ is_default_access(c.src_expr) =>
       /\ r.expr = default_expr(c.dst_t, {}).expr /\ r.comment = DefaultedComment
       /\ NothingRegistered(r)
       /\ \A other \in SrcTypes : value_expr(c.dst_t, other, c.src_expr, 1) = r
  /\ ~is_default_access(c.src_expr) /\ both_records(c.dst_t, c.src_t) =>
       /\ r.expr.k \in {"Map", "aggregate"}
       /\ r.expr.k = "Map" => r.expr = MapCall(c.src_expr) /\ NothingRegistered(r)
       /\ TypePairOf(c) \notin needed_array_maps \cup needed_enum_maps
  /\ ~is_default_access(c.src_expr) /\ ~both_records(c.dst_t, c.src_t)
       /\ both_arrays(c.dst_t, c.src_t) =>
       /\ r.expr = MapCall(c.src_expr)
       /\ r.arrays = {TypePairOf(c)} /\ r.enums = {}
       /\ needed_array_maps = {TypePairOf(c)} /\ needed_enum_maps = {}
  /\ ~is_default_access(c.src_expr) /\ ~both_records(c.dst_t, c.src_t)
       /\ ~both_arrays(c.dst_t, c.src_t) /\ both_enums(c.dst_t, c.src_t) =>
       /\ r.expr = MapCall(c.src_expr)
       /\ r.enums = {TypePairOf(c)} /\ r.arrays = {}
       /\ needed_enum_maps = {TypePairOf(c)} /\ needed_array_maps = {}

NoEarlierCase(c) ==
  /\ ~is_default_access(c.src_expr) /\ ~both_records(c.dst_t, c.src_t)
  /\ ~both_arrays(c.dst_t, c.src_t) /\ ~both_enums(c.dst_t, c.src_t)

DestinationNamed(c) == TruthyStr(c.dst_t)

\* C3 as stated: a call of value_expr takes the first applicable of the default, record,
\* array and enum cases, and in every other call returns a cast of the source expression
\* to the destination type name.
C3_DecisionOrder_AlwaysCast ==
  pc = "returned" =>
    /\ FirstCasesInOrder(call)
    /\ NoEarlierCase(call) =>
         /\ DestinationNamed(call)
         /\ call.result.expr = Cast(Val(_base_type(call.dst_t)), call.src_expr)
         /\ NothingRegistered(call.result)

\* C3: a call of value_expr takes the first applicable of the default, record, array and
\* enum cases; in every other call it returns a cast of the source expression to the
\* destination type name when the call names a destination type, and the source
\* expression as it is when the destination type is None or empty.
C3_DecisionOrder ==
  pc = "returned" =>
    /\ FirstCasesInOrder(call)
    /\ NoEarlierCase(call) =>
         /\ NothingRegistered(call.result)
         /\ call.result.expr =
              IF DestinationNamed(call)
                THEN Cast(Val(_base_type(call.dst_t)), call.src_expr)
                ELSE Bare(call.src_expr)

\* A call whose types resolve as records, arrays and enums at once returned the aggregate.
C3_AmbiguousCallReached ==
  /\ pc = "returned"
  /\ ~is_default_access(call.src_expr)
  /\ both_records(call.dst_t, call.src_t)
  /\ both_arrays(call.dst_t, call.src_t)
  /\ both_enums(call.dst_t, call.src_t)
  /\ call.result.expr.k = "aggregate"

\* A call without a destination type returned the source expression without a cast.
C3_Witness ==
  /\ pc = "returned"
  /\ IsNone(call.dst_t)
  /\ both_records(Some("T_In"), call.src_t)
  /\ call.result.expr = Bare(call.src_expr)

\* C4: a call of value_expr on two record types returns Map(src_access) exactly when the
\* pair of the two type names is a declared conversion; otherwise it returns an aggregate
\* with one association per destination field, in the order of the destination record,
\* and each field that has a source field of the same name in any letter case holds
\* what value_expr returns for the two field types and the selection of that field.
C4_RecordCase ==
  pc = "returned" /\ ~is_default_access(call.src_expr)
    /\ both_records(call.dst_t, call.src_t) =>
    LET r == call.result
        to_fields == Val(get_to_fields(call.dst_t))
        from_fields == Val(get_from_fields(call.src_t))
    IN
    /\ r.expr = MapCall(call.src_expr) <=> TypePairOf(call) \in mapping_pairs
    /\ TypePairOf(call) \notin mapping_pairs =>
         /\ r.expr.k = "aggregate"
         /\ Len(r.expr.parts) = Len(to_fields)
         /\ \A i \in 1..Len(to_fields) :
              /\ r.expr.parts[i].dest = to_fields[i][1]
              /\ \A f \in Keys(from_fields) :
                   SameName(f, to_fields[i][1]) =>
                     r.expr.parts[i].expr =
                       value_expr(Some(to_fields[i][2]), Some(Get(from_fields, f)),
                                  Select(call.src_expr, f), 1).expr

\* An undeclared pair of records returned an aggregate that calls the declared
\* conversion of a nested pair and fills a field from a source field of another case.
C4_Witness ==
  /\ pc = "returned"
  /\ call.src_t = Some("F_Out") /\ call.dst_t = Some("T_Out")
  /\ ~is_default_access(call.src_expr)
  /\ <<"F_Out", "T_Out">> \notin mapping_pairs
  /\ call.result.expr.k = "aggregate"
  /\ \E i \in 1..Len(call.result.expr.parts) :
       /\ call.result.expr.parts[i].dest = "Inner"
       /\ call.result.expr.parts[i].expr = MapCall(Select(call.src_expr, "Inner"))
  /\ \E i \in 1..Len(call.result.expr.parts) :
       /\ call.result.expr.parts[i].dest = "x"
       /\ call.result.expr.parts[i].expr = Cast("I16", Select(call.src_expr, "X"))

(***************************************************************************)
(* A generation run.  The caller compiles the declared record conversions  *)
(* in the order of the mapping specification, closes the array need-set,   *)
(* and renders the array and enum helpers of the two need-sets.  The       *)
(* schemas nest arrays up to three levels deep, over scalars and over      *)
(* records; the mapped field of the top record is drawn on both sides.     *)
(***************************************************************************)
GenFromIndex(data, tagged, dims2) ==
  [records |-> ("F_Top" :> (<< <<"Data", data>> >> \o
                            (IF tagged THEN << <<"Tag", "F_Enum">> >> ELSE <<>>))) @@
               ("F_R" :> << <<"V", "I32">> >>),
   arrays |-> ("F_A1" :> "I32") @@ ("F_A2" :> "F_A1") @@ ("F_A3" :> "F_A2") @@
              ("F_AR1" :> "F_R") @@ ("F_AR2" :> "F_AR1"),
   array_dims |-> ("F_A1" :> 1) @@ ("F_A2" :> dims2) @@ ("F_A3" :> 1) @@
                  ("F_AR1" :> 1) @@ ("F_AR2" :> dims2),
   enums |-> ("F_Enum" :> <<"Red", "Green">>),
   subtypes |-> <<>>]

GenToIndex(data, tagged, dims2) ==
  [records |-> ("T_Top" :> (<< <<"Data", data>> >> \o
                            (IF tagged THEN << <<"Tag", "T_Enum">> >> ELSE <<>>))) @@
               ("T_R" :> << <<"V", "I16">> >>),
   arrays |-> ("T_A1" :> "I16") @@ ("T_A2" :> "T_A1") @@ ("T_A3" :> "T_A2") @@
              ("T_AR1" :> "T_R") @@ ("T_AR2" :> "T_AR1"),
   array_dims |-> ("T_A1" :> 1) @@ ("T_A2" :> dims2) @@ ("T_A3" :> 1) @@
                  ("T_AR1" :> 1) @@ ("T_AR2" :> dims2),
   enums |-> ("T_Enum" :> <<"Green", "Red">>),
   subtypes |-> <<>>]

FromDataTypes == {"F_A1", "F_A2", "F_A3", "F_AR1", "F_AR2"}
ToDataTypes == {"T_A1", "T_A2", "T_A3", "T_AR1", "T_AR2"}
TagChoices == {"none", "plain", "override"}

Entry(from, to, fields, enum_maps) ==
  [from |-> from, to |-> to, fields |-> fields, enum_maps |-> enum_maps]

TopEntry(tag) ==
  Entry("F_Top", "T_Top",
        << <<"Data", "Data">> >> \o (IF tag = "none" THEN <<>> ELSE << <<"Tag", "Tag">> >>),
        IF tag = "override" THEN << <<"Tag", << <<"Red", "Green">> >> >> >> ELSE <<>>)

ElementEntry == Entry("F_R", "T_R", << <<"V", "V">> >>, <<>>)

InitGen ==
  /\ \E fd \in FromDataTypes, td \in ToDataTypes, tag \in TagChoices, dims2 \in 1..2,
        declared \in BOOLEAN :
       /\ index = [from |-> GenFromIndex(fd, tag # "none", dims2),
                   to |-> GenToIndex(td, tag # "none", dims2)]
       /\ mappings = <<TopEntry(tag)>> \o (IF declared THEN <<ElementEntry>> ELSE <<>>)
  /\ mapping_pairs = {<<mappings[i].from, mappings[i].to>> : i \in 1..Len(mappings)}
  /\ call = IdleCall /\ needed_array_maps = {} /\ needed_enum_maps = {}
  /\ enum_overrides = <<>> /\ pc = "compile" /\ out = NoOutput

\* The caller compiles the next entry of the mapping specification.
GenRecord ==
  /\ pc = "compile"
  /\ Cardinality(DOMAIN out.record) < Len(mappings)
  /\ \E entry \in {mappings[Cardinality(DOMAIN out.record) + 1]} :
     \E body \in {gen_record_function_body(entry.from, entry.to, entry.fields,
                                          entry.enum_maps)} :
        /\ out' = [out EXCEPT !.record = @ @@ (<<entry.from, entry.to>> :>
                     [raised |-> body.raised, src |-> entry.from, dst |-> entry.to,
                      associations |-> body.associations])]
        /\ needed_array_maps' = needed_array_maps \cup body.arrays
        /\ needed_enum_maps' = needed_enum_maps \cup body.enums
        /\ enum_overrides' = body.overrides
        /\ pc' = IF body.raised THEN "aborted" ELSE pc
  /\ UNCHANGED <<index, call, mapping_pairs, mappings>>

\* When every entry is compiled the caller closes the array need-set.
Expand ==
  /\ pc = "compile"
  /\ Cardinality(DOMAIN out.record) = Len(mappings)
  /\ needed_array_maps' = expand_array_pairs_transitively(needed_array_maps)
  /\ pc' = "render"
  /\ UNCHANGED <<index, call, mapping_pairs, needed_enum_maps, enum_overrides, mappings, out>>

NextGen ==
  \/ GenRecord
  \/ Expand
  \/ \E pair \in needed_array_maps : RenderArray(pair)
  \/ \E pair \in needed_enum_maps : RenderEnum(pair)

SpecGen == InitGen /\ [][NextGen]_vars

\* The element types of an array pair, and what they resolve as.
SrcElem(pair) == from_array_elem(Some(pair[1]))
DstElem(pair) == to_array_elem(Some(pair[2]))
ElementsAreArrays(pair) ==
  /\ TruthyStr(SrcElem(pair)) /\ TruthyStr(DstElem(pair))
  /\ TruthyStr(from_array_elem(SrcElem(pair))) /\ TruthyStr(to_array_elem(DstElem(pair)))
ElementsAreRecords(pair) ==
  /\ TruthyStr(SrcElem(pair)) /\ TruthyStr(DstElem(pair))
  /\ TruthyDict(get_from_fields(SrcElem(pair))) /\ TruthyDict(get_to_fields(DstElem(pair)))
IsScalar(domain, t) ==
  /\ IsNone(get_array_element_type(domain, t))
  /\ IsNone(get_record_fields(domain, t))
  /\ IsNone(get_enum_literals(domain, t))
ElementsAreScalars(pair) ==
  /\ TruthyStr(SrcElem(pair)) /\ TruthyStr(DstElem(pair))
  /\ IsScalar("from", Val(SrcElem(pair))) /\ IsScalar("to", Val(DstElem(pair)))
ElementPair(pair) == <<Val(SrcElem(pair)), Val(DstElem(pair))>>

\* The pairs of array types of the mapped fields of the compiled entries.
FieldArrayPairs ==
  {p \in UNION {{<<Get(Val(get_from_fields(Some(mappings[i].from))), mappings[i].fields[j][2]),
                   Get(Val(get_to_fields(Some(mappings[i].to))), mappings[i].fields[j][1])>> :
                   j \in 1..Len(mappings[i].fields)} : i \in 1..Len(mappings)} :
     TruthyStr(from_array_elem(Some(p[1]))) /\ TruthyStr(to_array_elem(Some(p[2])))}

MaxNesting == 3

RECURSIVE LevelsBelow(_, _)
\* A pair of arrays and the pairs of its nested levels whose two sides are arrays.
LevelsBelow(pair, n) ==
  {pair} \cup (IF n > 1 /\ ElementsAreArrays(pair) THEN LevelsBelow(ElementPair(pair), n - 1)
               ELSE {})

\* What the helper of a pair in the rendered output assigns to each element.
ElementAccess(pair) == out.array[pair].assign.expr.arg
AssignedExpr(pair) == out.array[pair].assign.expr

\* C5: once the entries are compiled and the array need-set is closed, the need-set holds
\* the pair of every nesting level of a mapped field of nested array type; the helper of
\* a level whose elements are arrays assigns Map of the element, and the helper of a
\* level whose elements are scalars assigns the element cast to the destination element
\* type.
C5_NestedArrayLevels ==
  pc = "render" =>
    /\ \A top \in FieldArrayPairs : LevelsBelow(top, MaxNesting) \subseteq needed_array_maps
    /\ \A pair \in DOMAIN out.array :
         /\ ElementsAreArrays(pair) =>
              /\ ElementPair(pair) \in needed_array_maps
              /\ AssignedExpr(pair) = MapCall(ElementAccess(pair))
         /\ ElementsAreScalars(pair) =>
              AssignedExpr(pair) = Cast(Val(DstElem(pair)), ElementAccess(pair))

\* A field of three array levels is rendered: two helpers call Map, the innermost casts.
C5_Witness ==
  /\ pc = "render"
  /\ <<"F_A3", "T_A3">> \in FieldArrayPairs
  /\ DOMAIN out.array = {<<"F_A3", "T_A3">>, <<"F_A2", "T_A2">>, <<"F_A1", "T_A1">>}
  /\ AssignedExpr(<<"F_A3", "T_A3">>).k = "Map"
  /\ AssignedExpr(<<"F_A2", "T_A2">>).k = "Map"
  /\ AssignedExpr(<<"F_A1", "T_A1">>) = Cast("I16", Access("A", <<"I">>, <<>>))

\* C6 as stated: in the closed array need-set, the element pair of every pair whose
\* elements are both arrays or both records is in the need-set as well.
C6_ClosureArraysAndRecords ==
  pc = "render" =>
    \A pair \in needed_array_maps :
      ElementsAreArrays(pair) \/ ElementsAreRecords(pair) =>
        ElementPair(pair) \in needed_array_maps

\* C6: in the closed array need-set every pair is a pair of arrays; the element pair of a
\* pair whose elements are both arrays is in the need-set, and the element pair of a pair
\* whose elements are both records is not: the helper of such a pair calls Map on the
\* element when the record pair is a declared conversion and writes an aggregate in place
\* otherwise.
C6_ClosureArraysOnly ==
  pc = "render" =>
    /\ \A pair \in needed_array_maps :
         /\ TruthyStr(SrcElem(pair)) /\ TruthyStr(DstElem(pair))
         /\ ElementsAreArrays(pair) => ElementPair(pair) \in needed_array_maps
         /\ ElementsAreRecords(pair) => ElementPair(pair) \notin needed_array_maps
    /\ \A pair \in DOMAIN out.array :
         ElementsAreRecords(pair) =>
           AssignedExpr(pair).k =
             IF ElementPair(pair) \in mapping_pairs THEN "Map" ELSE "aggregate"

\* A field of type array of array of record is rendered with the helpers of its two
\* array levels only, the inner one writing the record in place.
C6_Witness ==
  /\ pc = "render"
  /\ <<"F_AR2", "T_AR2">> \in FieldArrayPairs
  /\ needed_array_maps = {<<"F_AR2", "T_AR2">>, <<"F_AR1", "T_AR1">>}
  /\ DOMAIN out.array = needed_array_maps
  /\ <<"F_R", "T_R">> \notin mapping_pairs
  /\ AssignedExpr(<<"F_AR2", "T_AR2">>).k = "Map"
  /\ AssignedExpr(<<"F_AR1", "T_AR1">>).k = "aggregate"

(***************************************************************************)
(* Override tables of several fields.  Two declared record conversions map *)
(* three fields of one enum pair; each field may carry an override table   *)
(* that validation lets through, and the two fields of the first entry are *)
(* written in either order.                                                *)
(***************************************************************************)
ColourPair == <<"F_Colour", "T_Colour">>
ColourLiterals == <<"Red", "Green", "Blue">>

OverridesFromIndex ==
  [EmptyIndex EXCEPT
     !.records = ("F_Pix" :> << <<"Fore", "F_Colour">>, <<"Back", "F_Colour">> >>) @@
                 ("F_Pen" :> << <<"Ink", "F_Colour">> >>),
     !.enums = ("F_Colour" :> ColourLiterals)]

OverridesToIndex ==
  [EmptyIndex EXCEPT
     !.records = ("T_Pix" :> << <<"Fore", "T_Colour">>, <<"Back", "T_Colour">> >>) @@
                 ("T_Pen" :> << <<"Ink", "T_Colour">> >>),
     !.enums = ("T_Colour" :> ColourLiterals)]

MaxFieldOverrides == 2

\* The override tables a field may carry: none ("-"), or up to n entries with distinct keys.
FieldTables(n) ==
  UNION {{t \in [1..m -> {"Red", "RED", "Green", "Blue"} \X {"Green", "Blue"}] :
            \A i, j \in 1..m : i # j => t[i][1] # t[j][1]} : m \in 0..n}

\* field_enum_overrides of an entry: the fields that carry a table, in the order written
EnumMapsOf(dests, tables) ==
  LET carrying == SelectSeq(dests, LAMBDA d : tables[d] # <<"-">>) IN
  [i \in 1..Len(carrying) |-> <<carrying[i], tables[carrying[i]]>>]

InitOverrides ==
  /\ \E fore \in FieldTables(MaxFieldOverrides) \cup {<<"-">>},
        back \in FieldTables(1) \cup {<<"-">>},
        ink \in FieldTables(1),
        order \in {<<"Fore", "Back">>, <<"Back", "Fore">>} :
       mappings =
         << Entry("F_Pix", "T_Pix", [i \in 1..2 |-> <<order[i], order[i]>>],
                  EnumMapsOf(order, ("Fore" :> fore) @@ ("Back" :> back))),
            Entry("F_Pen", "T_Pen", << <<"Ink", "Ink">> >>, << <<"Ink", ink>> >>) >>
  /\ index = [from |-> OverridesFromIndex, to |-> OverridesToIndex]
  /\ mapping_pairs = {<<mappings[i].from, mappings[i].to>> : i \in 1..Len(mappings)}
  /\ call = IdleCall /\ needed_array_maps = {} /\ needed_enum_maps = {}
  /\ enum_overrides = <<>> /\ pc = "compile" /\ out = NoOutput

NextOverrides ==
  \/ GenRecord
  \/ Expand
  \/ \E pair \in needed_enum_maps : RenderEnum(pair)

SpecOverrides == InitOverrides /\ [][NextOverrides]_vars

RECURSIVE TablesFrom(_)
\* The override tables of the fields of the entries from the i-th on, in processing order.
TablesFrom(i) ==
  IF i > Len(mappings) THEN <<>>
  ELSE [j \in 1..Len(mappings[i].enum_maps) |-> mappings[i].enum_maps[j][2]] \o TablesFrom(i + 1)

RegisteredTables == TablesFrom(1)
FinalTable == IF ColourPair \in DOMAIN enum_overrides THEN enum_overrides[ColourPair] ELSE <<>>
\* The entries, of any field, that list a source literal in any letter case.
EntriesListing(lit) ==
  {e \in UNION {Range(RegisteredTables[n]) : n \in 1..Len(RegisteredTables)} :
     SameName(Strip(e[1]), lit)}

\* C11: when every entry is compiled, the override table of the enum pair holds each
\* entry of each field that carries a table for the pair, unless a field processed later
\* lists the very same key; no key of any field is missing from it.  A source literal
\* that one entry in all lists is rendered with the target of that entry.
C11_OverridesAccumulate ==
  pc = "render" =>
    /\ \A n \in 1..Len(RegisteredTables) :
         \A e \in Range(RegisteredTables[n]) :
           /\ HasKey(FinalTable, e[1])
           /\ (\A m \in (n + 1)..Len(RegisteredTables) : ~HasKey(RegisteredTables[m], e[1]))
                => e \in Range(FinalTable)
    /\ Keys(FinalTable) = UNION {Keys(RegisteredTables[n]) : n \in 1..Len(RegisteredTables)}
    /\ Rendered(ColourPair) =>
         \A i \in 1..Len(ColourLiterals) :
           \A e \in EntriesListing(ColourLiterals[i]) :
             EntriesListing(ColourLiterals[i]) = {e} =>
               SameName(Last(out.enum[ColourPair].arms[i].to), e[2])

\* Three fields registered entries for different literals and keys, the first field of
\* the first entry two of them, and the helper is rendered from all of them.
C11_Witness ==
  /\ pc = "render"
  /\ Len(RegisteredTables) = 3
  /\ Len(RegisteredTables[1]) = 2
  /\ \A n, m \in 1..3 : n # m => Keys(RegisteredTables[n]) \cap Keys(RegisteredTables[m]) = {}
  /\ Len(FinalTable) = 4
  /\ Rendered(ColourPair)

(***************************************************************************)
(* Structural defaults.  One declared record conversion maps every field   *)
(* of T_Rec to the default sentinel, in one of its spellings; besides, the *)
(* default of one destination type is asked for by a call of its own.      *)
(***************************************************************************)
MaxDefaultDims == 3
DefaultElems == {"I16", "T_Enum", "T_In", "T_Row"}
PairShapes == {"siblings", "branches", "distinct", "scalars", "enums"}
NodeShapes == {"self", "through_array", "through_record"}
SentinelSpellings == {"__DEFAULT__", "__default__", "__Default__", " __DEFAULT__ "}

PairFields(shape) ==
  CASE shape = "siblings" -> << <<"A", "T_In">>, <<"B", "T_In">> >>
    [] shape = "branches" -> << <<"A", "T_Mid">>, <<"B", "T_In">> >>
    [] shape = "distinct" -> << <<"A", "T_Mid">>, <<"B", "T_Enum">> >>
    [] shape = "scalars" -> << <<"A", "I16">>, <<"B", "I16">> >>
    [] shape = "enums" -> << <<"A", "T_Enum">>, <<"B", "T_Enum">> >>

NodeFields(shape) ==
  CASE shape = "self" -> << <<"Next", "T_Node">> >>
    [] shape = "through_array" -> << <<"Items", "T_List">> >>
    [] shape = "through_record" -> << <<"Peer", "T_Peer">> >>

RecFields ==
  << <<"S", "I16">>, <<"E", "T_Enum">>, <<"ES", "T_EnumSub">>, <<"A", "T_Arr">>,
     <<"AS", "T_ArrSub">>, <<"P", "Node_Access">>, <<"R", "T_Pair">>,
     <<"N1", "T_Node">>, <<"N2", "T_Node">> >>

DefaultToIndex(elem, dims, pair, node) ==
  [records |-> ("T_In" :> << <<"VAL", "I16">> >>) @@ ("T_Mid" :> << <<"M", "T_In">> >>) @@
               ("T_Pair" :> PairFields(pair)) @@ ("T_Node" :> NodeFields(node)) @@
               ("T_Peer" :> << <<"Back", "T_Node">> >>) @@ ("T_Rec" :> RecFields),
   arrays |-> ("T_Arr" :> elem) @@ ("T_Row" :> "I16") @@ ("T_List" :> "T_Node"),
   array_dims |-> ("T_Arr" :> dims) @@ ("T_Row" :> 1) @@ ("T_List" :> 1),
   enums |-> ("T_Enum" :> <<"Green", "Red">>),
   subtypes |-> ("T_EnumSub" :> "T_Enum") @@ ("T_ArrSub" :> "T_Arr")]

DefaultFromIndex == [EmptyIndex EXCEPT !.records = ("F_Rec" :> << <<"S", "I32">> >>)]

DefaultTypes ==
  {"I16", "T_Enum", "T_EnumSub", "T_Arr", "T_ArrSub", "T_Row", "T_List", "Node_Access",
   "T_In", "T_Mid", "T_Pair", "T_Node", "T_Peer"}

InitDefault ==
  /\ \E elem \in DefaultElems, dims \in 1..MaxDefaultDims, pair \in PairShapes,
        node \in NodeShapes, src \in SentinelSpellings :
       /\ index = [from |-> DefaultFromIndex, to |-> DefaultToIndex(elem, dims, pair, node)]
       /\ mappings = << Entry("F_Rec", "T_Rec",
                              [i \in 1..Len(RecFields) |-> <<RecFields[i][1], src>>], <<>>) >>
  /\ mapping_pairs = {<<"F_Rec", "T_Rec">>}
  /\ call = IdleCall /\ needed_array_maps = {} /\ needed_enum_maps = {}
  /\ enum_overrides = <<>> /\ pc = "compile" /\ out = NoOutput

\* One top-level call default_expr(type_name): seen is None, so the call starts a set.
CallDefaultExpr(type_name) ==
  /\ call = IdleCall
  /\ \E result \in {default_expr(Some(type_name), {})} :
       call' = [op |-> "default_expr", type_name |-> type_name, result |-> result]
  /\ UNCHANGED <<index, mapping_pairs, needed_array_maps, needed_enum_maps, enum_overrides,
                 mappings, pc, out>>

NextDefault ==
  \/ GenRecord
  \/ \E type_name \in DefaultTypes : CallDefaultExpr(type_name)

SpecDefault == InitDefault /\ [][NextDefault]_vars

Compiled == <<"F_Rec", "T_Rec">> \in DOMAIN out.record
Defaulted == out.record[<<"F_Rec", "T_Rec">>].associations
DefaultCalled == call # IdleCall

ToEnum(t) == get_enum_literals("to", t)
ToElem(t) == to_array_elem(Some(t))
ToFields(t) == get_to_fields(Some(t))

RECURSIVE StructuralDefault(_)
\* The default of a destination type by its kind alone, every component expanded.
StructuralDefault(t) ==
  IF TruthyDict(ToFields(t))
    THEN QualifiedAggregate(t, [i \in 1..Len(Val(ToFields(t))) |->
           [dest |-> Val(ToFields(t))[i][1],
            expr |-> StructuralDefault(Val(ToFields(t))[i][2])]])
  ELSE IF TruthyStr(ToElem(t))
    THEN Others(Val(get_array_dimension("to", t)), StructuralDefault(Val(ToElem(t))), Some(t))
  ELSE IF TruthyDict(ToEnum(t)) THEN Literal(Val(ToEnum(t))[1])
  ELSE IF t \in AccessNames THEN Null
  ELSE First(t)

\* C12: every association of a field mapped to the sentinel, in any spelling, carries the
\* sentinel comment and a value fixed by the destination field type: the first declared
\* literal for an enum, the element default inside one others-constructor per declared
\* dimension for an array, <type>'First for another scalar; the entry registers no helper
\* and reads no source field.
C12_SentinelDefault ==
  Compiled =>
    /\ ~out.record[<<"F_Rec", "T_Rec">>].raised
    /\ Len(Defaulted) = Len(RecFields)
    /\ needed_array_maps = {} /\ needed_enum_maps = {} /\ enum_overrides = <<>>
    /\ \A i \in 1..Len(RecFields) :
         LET d_t == RecFields[i][2]
             a == Defaulted[i]
         IN /\ a.dest = RecFields[i][1]
            /\ a.comment = Some("defaulted (__DEFAULT__)")
            /\ TruthyDict(ToEnum(d_t)) => a.expr = Literal(Val(ToEnum(d_t))[1])
            /\ TruthyStr(ToElem(d_t)) =>
                 /\ a.expr.k = "others"
                 /\ a.expr.dims = Val(get_array_dimension("to", d_t))
                 /\ a.expr.elem = StructuralDefault(Val(ToElem(d_t)))
            /\ d_t = "I16" => a.expr = First("I16")

\* The entry is compiled from a sentinel in another spelling than the constant, and the
\* array field has several dimensions and elements that are arrays themselves.
C12_Witness ==
  /\ Compiled
  /\ mappings[1].fields[1][2] \in {"__default__", " __DEFAULT__ "}
  /\ Val(get_array_dimension("to", "T_Arr")) = MaxDefaultDims
  /\ ToElem("T_Arr") = Some("T_Row")
  /\ Defaulted[4].expr.elem = Others(1, First("I16"), Some("T_Row"))

\* The types a destination type is made of: the field types of a record, the element
\* type of an array.
Components(t) ==
  (IF TruthyDict(ToFields(t)) THEN {f[2] : f \in Range(Val(ToFields(t)))} ELSE {}) \cup
  (IF TruthyStr(ToElem(t)) THEN {Val(ToElem(t))} ELSE {})

RECURSIVE Below(_, _)
\* The types reached from the types of S through components, in at most n steps.
Below(S, n) ==
  IF n = 0 THEN S ELSE Below(S \cup UNION {Components(t) : t \in S}, n - 1)

Inside(t) == Below(Components(t), Cardinality(DefaultTypes))
Acyclic(t) == \A u \in Inside(t) \cup {t} : u \notin Inside(u)

\* C13: the default of a destination record type with an acyclic type graph is the
\* aggregate in which every field, at every depth, holds the default of its own type by
\* kind, also when two fields have the same type.
C13_FullyExpanded ==
  (DefaultCalled /\ TruthyDict(ToFields(call.type_name)) /\ Acyclic(call.type_name)) =>
    call.result.expr = StructuralDefault(call.type_name)

RECURSIVE Expansions(_)
RECURSIVE ExpansionsOf(_, _)
\* The number of record aggregates and others-constructors in a default expression.
Expansions(e) ==
  IF e.k = "qualified" THEN 1 + ExpansionsOf(e.parts, 1)
  ELSE IF e.k = "others" THEN 1 + Expansions(e.elem)
  ELSE 0
ExpansionsOf(parts, i) ==
  IF i > Len(parts) THEN 0 ELSE Expansions(parts[i].expr) + ExpansionsOf(parts, i + 1)

RECURSIVE NotExpandedAgain(_, _)
\* No type is expanded inside its own expansion.
NotExpandedAgain(e, path) ==
  IF e.k = "qualified"
    THEN /\ e.type \notin path
         /\ \A i \in 1..Len(e.parts) : NotExpandedAgain(e.parts[i].expr, path \cup {e.type})
  ELSE IF e.k = "others"
    THEN IF IsNone(e.qualifier) THEN NotExpandedAgain(e.elem, path)
         ELSE /\ Val(e.qualifier) \notin path
              /\ NotExpandedAgain(e.elem, path \cup {Val(e.qualifier)})
  ELSE TRUE

RECURSIVE CutDefault(_, _)
\* The default of a type by kind in which a type met again on the way down from the
\* top is <type>'First.
CutDefault(t, path) ==
  IF t \in path THEN First(t)
  ELSE IF TruthyDict(ToFields(t))
    THEN QualifiedAggregate(t, [i \in 1..Len(Val(ToFields(t))) |->
           [dest |-> Val(ToFields(t))[i][1],
            expr |-> CutDefault(Val(ToFields(t))[i][2], path \cup {t})]])
  ELSE IF TruthyStr(ToElem(t))
    THEN Others(Val(get_array_dimension("to", t)), CutDefault(Val(ToElem(t)), path \cup {t}),
                Some(t))
  ELSE IF TruthyDict(ToEnum(t)) THEN Literal(Val(ToEnum(t))[1])
  ELSE IF t \in AccessNames THEN Null
  ELSE First(t)

CyclicTypes == {t \in DefaultTypes : t \in Inside(t)}

\* C14: every call of default_expr returns, having expanded at most one aggregate or
\* constructor per type it visited and none inside its own expansion; for a type that
\* contains itself, the occurrence met again is <type>'First; and each top-level call
\* starts from an empty visited set, so two defaulted fields of one self-containing type
\* get the same expression as a call of its own.
C14_DefaultTerminates ==
  /\ DefaultCalled =>
       /\ call.result.seen \subseteq DefaultTypes
       /\ Expansions(call.result.expr) <= Cardinality(call.result.seen)
       /\ NotExpandedAgain(call.result.expr, {})
       /\ call.type_name \in CyclicTypes =>
            call.result.expr = CutDefault(call.type_name, {})
  /\ Compiled =>
       /\ Defaulted[8].expr = CutDefault("T_Node", {})
       /\ Defaulted[9].expr = Defaulted[8].expr
       /\ NotExpandedAgain(Defaulted[7].expr, {})

\* The record T_Node holds an array of T_Node: the call for the array type has returned
\* with the array met again as T_List'First, after the entry with two fields of type
\* T_Node was compiled.
C14_Witness ==
  /\ Compiled /\ DefaultCalled
  /\ call.type_name = "T_List"
  /\ ToFields("T_Node") = Some(<< <<"Items", "T_List">> >>)
  /\ call.result.expr =
       Others(1, QualifiedAggregate("T_Node", <<[dest |-> "Items", expr |-> First("T_List")]>>),
              Some("T_List"))
  /\ Defaulted[9].expr.k = "qualified"

(***************************************************************************)
(* Source references.  One declared record conversion F_Out -> T_Out maps  *)
(* two destination fields, each to a plain source name in some letter case *)
(* or to a dotted path; the conversion of the nested records may be        *)
(* declared as well.                                                       *)
(***************************************************************************)
PlainRefs == {"X", "x", "Inner", "inner", "INNER", "Tag", "tag", "Arr"}
DottedRefs == {"Inner.Val", "inner.val", "Inner.Missing", "Tag.Val"}
FieldDests == {"x", "Inner", "Tag", "Arr"}

InitFields ==
  /\ \E d1 \in FieldDests, r1 \in PlainRefs \cup DottedRefs, r2 \in PlainRefs \cup DottedRefs,
        declared \in BOOLEAN :
       mappings = << Entry("F_Out", "T_Out", << <<d1, r1>>, <<"Extra", r2>> >>, <<>>) >> \o
                  (IF declared THEN << Entry("F_In", "T_In", << <<"VAL", "Val">> >>, <<>>) >>
                   ELSE <<>>)
  /\ index = [from |-> ValueFromIndex({}), to |-> ValueToIndex({})]
  /\ mapping_pairs = {<<mappings[i].from, mappings[i].to>> : i \in 1..Len(mappings)}
  /\ call = IdleCall /\ needed_array_maps = {} /\ needed_enum_maps = {}
  /\ enum_overrides = <<>> /\ pc = "compile" /\ out = NoOutput

SpecFields == InitFields /\ [][NextGen]_vars

OutCompiled == <<"F_Out", "T_Out">> \in DOMAIN out.record
OutBody == out.record[<<"F_Out", "T_Out">>]
OutFields == mappings[1].fields
DestType(i) == DictGet(Val(get_to_fields(Some("T_Out"))), OutFields[i][1])
\* The association emitted for the i-th field of the entry, if any.
Emitted(i) == {a \in Range(OutBody.associations) : a.dest = OutFields[i][1]}
PathType(i) == resolve_src_path_type("F_Out", OutFields[i][2])

\* C15: a field whose dotted source path has a segment that does not resolve makes the
\* compilation of the entry fail, with no expression emitted for the field; a field
\* whose path resolves is converted from the type of the last segment with X.<path>.
C15_UnresolvedPathFails ==
  OutCompiled =>
    \A i \in 1..Len(OutFields) :
      OutFields[i][2] \in DottedRefs =>
        IF IsNone(PathType(i)) THEN OutBody.raised /\ Emitted(i) = {}
        ELSE \E a \in Emitted(i) :
               a.expr = value_expr(DestType(i), PathType(i),
                                   Access("X", <<>>, SplitDot(OutFields[i][2])), 1).expr

\* The declared source field a plain name spells in some letter case, if any.
SourceFieldNamed(src) ==
  {f \in Range(Val(get_from_fields(Some("F_Out")))) : Lower(f[1]) = Lower(src)}

\* C16: a field mapped to a plain source name that spells a source field in any letter
\* case is converted from the declared type of that field, by the rule that the exact
\* spelling gives.
C16_PlainNameAnyCase ==
  OutCompiled =>
    \A i \in 1..Len(OutFields) :
      \A f \in SourceFieldNamed(OutFields[i][2]) :
        OutFields[i][2] \in PlainRefs =>
          \E a \in Emitted(i) :
            a.expr = value_expr(DestType(i), Some(f[2]),
                                Access("X", <<>>, <<OutFields[i][2]>>), 1).expr

(***************************************************************************)
(* validation.py.  A mapping entry as the validator reads it: name, from   *)
(* and to are a string or absent (None or not a string), fields is a       *)
(* dictionary or absent (not a dictionary); the value of a key of fields   *)
(* is a string, an object with a source reference ('from', 'source' or     *)
(* 'path') and possibly an 'enum_map', or a value of another type.  A      *)
(* defect is the message with its parts kept apart.                        *)
(***************************************************************************)
RawEntry(name, from, to, fields) == [name |-> name, from |-> from, to |-> to, fields |-> fields]
StrSpec(s) == [t |-> "str", ref |-> Some(s), enum_map |-> NoneVal]
ObjSpec(ref, enum_map) == [t |-> "obj", ref |-> ref, enum_map |-> enum_map]
OtherSpec == [t |-> "other", ref |-> NoneVal, enum_map |-> NoneVal]
\* The value of 'enum_map': a dictionary of strings, or a value that is no dictionary.
EnumMap(entries) == Some([is_dict |-> TRUE, entries |-> entries])
EnumMapNoDict == Some([is_dict |-> FALSE, entries |-> <<>>])

Defect(kind, ctx, field, value, type, names) ==
  [kind |-> kind, ctx |-> ctx, field |-> field, value |-> value, type |-> type, names |-> names]

\* The strings that start with "<" and end with ">"
Placeholders == {"<from>", "<src>", "<lit>"}
is_placeholder(value) == value \in Placeholders

\* str(x) of an optional string, as an f-string prints it
Shown(o) == IF IsNone(o) THEN "None" ELSE Val(o)

\* _build_lookup(fields).get(lowered): {name.lower(): (name, fields[name])}
_build_lookup_get(fields, lowered) ==
  LET at == {i \in 1..Len(fields) : Lower(fields[i][1]) = lowered} IN
  IF at = {} THEN NoneVal ELSE Some(fields[CHOOSE i \in at : \A j \in at : j <= i])

\* _enum_literals: () for a falsy or blank name, else the provider's answer or ()
_enum_literals(domain, type_name) ==
  IF ~TruthyStr(type_name) THEN <<>>
  ELSE IF Strip(Val(type_name)) = "" THEN <<>>
  ELSE OrEmpty(get_enum_literals(domain, Strip(Val(type_name))))

Resolved(type, errors) == [resolved |-> type, errors |-> errors]

\* _resolve_source_reference for a dotted reference
_resolve_dotted(ref_clean, reference, ctx, dest_field, from_type, path_type) ==
  IF TruthyStr(from_type) /\ from_type # Some(DEFAULT_SENTINEL)
    THEN IF IsNone(path_type)
           THEN Resolved(NoneVal, <<Defect("unknown source path", ctx, dest_field, reference,
                                           "", <<>>)>>)
         ELSE Resolved(Some(Strip(Val(path_type))), <<>>)
  ELSE Resolved(NoneVal, <<Defect("dotted path but source type is missing", ctx, dest_field,
                                  reference, "", <<>>)>>)

\* _resolve_source_reference for a plain reference
_resolve_plain(ref_clean, reference, ctx, dest_field, from_type, from_fields, match) ==
  IF Len(from_fields) = 0 THEN Resolved(NoneVal, <<>>)
  ELSE IF IsNone(match)
    THEN Resolved(NoneVal, <<Defect("unknown source field", ctx, dest_field, reference,
                                    Shown(from_type), <<>>)>>)
  ELSE Resolved(Some(Strip(Val(match)[2])), <<>>)

\* _resolve_source_reference: the resolved source type, or None, and the errors appended
_resolve_source_reference(reference, ctx, dest_field, from_type, from_fields) ==
  IF is_default_sentinel(Strip(reference)) THEN Resolved(Some(DEFAULT_SENTINEL), <<>>)
  ELSE IF Strip(reference) \in DOMAIN DotTable
    THEN _resolve_dotted(Strip(reference), reference, ctx, dest_field, from_type,
                         IF TruthyStr(from_type) /\ from_type # Some(DEFAULT_SENTINEL)
                           THEN resolve_src_path_type(Val(from_type), Strip(reference))
                           ELSE NoneVal)
  ELSE _resolve_plain(Strip(reference), reference, ctx, dest_field, from_type, from_fields,
                      _build_lookup_get(from_fields, Lower(Strip(reference))))

\* The errors of the loop of _validate_enum_override over the entries of enum_map
override_entry_errors(ctx, dest_field, entry, src_literals, dest_literals) ==
  (IF IsNone(lookup_get(src_literals, Lower(entry[1])))
     THEN <<Defect("enum_map references unknown source literal", ctx, dest_field, entry[1],
                   "", <<>>)>>
     ELSE <<>>) \o
  (IF IsNone(lookup_get(dest_literals, Lower(entry[2])))
     THEN <<Defect("enum_map targets unknown destination literal", ctx, dest_field, entry[2],
                   "", <<>>)>>
     ELSE <<>>)

RECURSIVE override_errors(_, _, _, _, _, _)
override_errors(ctx, dest_field, entries, src_literals, dest_literals, i) ==
  IF i > Len(entries) THEN <<>>
  ELSE override_entry_errors(ctx, dest_field, entries[i], src_literals, dest_literals) \o
       override_errors(ctx, dest_field, entries, src_literals, dest_literals, i + 1)

_validate_enum_override_dict(ctx, dest_field, entries, dest_type, source_type, dest_literals, src_literals) ==
  IF Len(dest_literals) = 0 \/ Len(src_literals) = 0
    THEN <<Defect("enum_map but source or destination is not an enum", ctx, dest_field,
                  Shown(source_type), dest_type, <<>>)>>
  ELSE override_errors(ctx, dest_field, entries, src_literals, dest_literals, 1)

\* _validate_enum_override: the errors it appends
_validate_enum_override(ctx, dest_field, enum_map, dest_type, source_type) ==
  IF ~enum_map.is_dict
    THEN <<Defect("'enum_map' must be an object", ctx, dest_field, "", "", <<>>)>>
  ELSE _validate_enum_override_dict(ctx, dest_field, enum_map.entries, dest_type, source_type,
         _enum_literals("to", Some(dest_type)),
         IF TruthyStr(source_type) /\ source_type # Some(DEFAULT_SENTINEL)
           THEN _enum_literals("from", source_type) ELSE <<>>)

\* What the checks of one key of fields leave: the errors, and the source type that the
\* type-family checks at the end of the pass look at (None after a continue).
Checked(errors, source_type) == [errors |-> errors, source_type |-> source_type]

IsDotted(ref) == ref \in DOMAIN DotTable
NoSourceType(from_type) == ~TruthyStr(from_type) \/ from_type = Some(DEFAULT_SENTINEL)

\* The pass of the field loop for a value that is a string.
validate_str_spec(ctx, dest_actual, spec_value, from_type, from_fields) ==
  IF is_placeholder(spec_value)
    THEN Checked(<<Defect("still uses placeholder value", ctx, dest_actual, spec_value, "",
                          <<>>)>>, NoneVal)
  ELSE IF is_default_sentinel(spec_value) THEN Checked(<<>>, NoneVal)
  ELSE IF IsDotted(spec_value) /\ NoSourceType(from_type)
    THEN Checked(<<Defect("dotted path but source type is missing", ctx, dest_actual,
                          spec_value, "", <<>>)>>, NoneVal)
  ELSE IF ~IsDotted(spec_value) /\ Len(from_fields) = 0 THEN Checked(<<>>, NoneVal)
  ELSE LET r == _resolve_source_reference(spec_value, ctx, dest_actual, from_type, from_fields)
       IN Checked(r.errors, r.resolved)

\* The source reference of an object value that is neither missing nor a placeholder.
validate_obj_ref(ctx, dest_actual, src_ref_str, from_type, from_fields) ==
  IF is_default_sentinel(src_ref_str) THEN Checked(<<>>, Some(DEFAULT_SENTINEL))
  ELSE IF IsDotted(src_ref_str) /\ NoSourceType(from_type)
    THEN Checked(<<Defect("dotted path but source type is missing", ctx, dest_actual,
                          src_ref_str, "", <<>>)>>, NoneVal)
  ELSE IF ~IsDotted(src_ref_str) /\ Len(from_fields) = 0 THEN Checked(<<>>, NoneVal)
  ELSE LET r == _resolve_source_reference(src_ref_str, ctx, dest_actual, from_type, from_fields)
       IN Checked(r.errors, r.resolved)

\* The checks of 'enum_map' after those of the source reference.
with_enum_override(ctx, dest_actual, dest_type, spec, ref) ==
  IF IsNone(spec.enum_map) THEN ref
  ELSE Checked(ref.errors \o _validate_enum_override(ctx, dest_actual, Val(spec.enum_map),
                                                     dest_type, ref.source_type),
               ref.source_type)

\* The type-family checks, were arrays not checked.
family_errors_records_only(ctx, dest_actual, dest_type, source_type) ==
  IF ~TruthyStr(source_type) \/ source_type = Some(DEFAULT_SENTINEL) THEN <<>>
  ELSE IF TruthyDict(get_to_fields(Some(dest_type))) /\ ~TruthyDict(get_from_fields(source_type))
    THEN <<Defect("expects record type", ctx, dest_actual, Val(source_type), dest_type, <<>>)>>
  ELSE <<>>

\* The type-family checks at the end of a pass of the field loop.
family_errors(ctx, dest_actual, dest_type, source_type) ==
  IF ~TruthyStr(source_type) \/ source_type = Some(DEFAULT_SENTINEL) THEN <<>>
  ELSE (IF TruthyDict(get_to_fields(Some(dest_type))) /\ ~TruthyDict(get_from_fields(source_type))
          THEN <<Defect("expects record type", ctx, dest_actual, Val(source_type), dest_type,
                        <<>>)>>
          ELSE <<>>) \o
       (IF TruthyStr(to_array_elem(Some(dest_type))) /\ ~TruthyStr(from_array_elem(source_type))
          THEN <<Defect("expects array type", ctx, dest_actual, Val(source_type), dest_type,
                        <<>>)>>
          ELSE <<>>)

with_family(ctx, dest_actual, dest_type, checked) ==
  checked.errors \o family_errors(ctx, dest_actual, dest_type, checked.source_type)

\* The pass of the field loop for a value that is an object.
validate_obj_spec(ctx, dest_actual, dest_type, spec, from_type, from_fields) ==
  IF ~TruthyStr(spec.ref)
    THEN <<Defect("mapping object must include 'from'/'source'/'path'", ctx, dest_actual, "",
                  "", <<>>)>>
  ELSE IF is_placeholder(Val(spec.ref))
    THEN <<Defect("still uses placeholder value", ctx, dest_actual, Val(spec.ref), "", <<>>)>>
  ELSE with_family(ctx, dest_actual, dest_type,
         with_enum_override(ctx, dest_actual, dest_type, spec,
           validate_obj_ref(ctx, dest_actual, Strip(Val(spec.ref)), from_type, from_fields)))

\* One pass of the field loop, for a key that names the destination field dest_actual.
validate_field_of(ctx, dest_actual, dest_type, spec, from_type, from_fields) ==
  IF spec.t = "str"
    THEN with_family(ctx, dest_actual, dest_type,
           validate_str_spec(ctx, dest_actual, Strip(Val(spec.ref)), from_type, from_fields))
  ELSE IF spec.t = "obj"
    THEN validate_obj_spec(ctx, dest_actual, dest_type, spec, from_type, from_fields)
  ELSE <<Defect("unsupported mapping value", ctx, dest_actual, "", "", <<>>)>>

\* One pass of the field loop: a key that names no destination field is passed over.
validate_field(ctx, lookup, spec, from_type, from_fields) ==
  IF IsNone(lookup) THEN <<>>
  ELSE validate_field_of(ctx, Val(lookup)[1], Strip(Val(lookup)[2]), spec, from_type,
                         from_fields)

RECURSIVE validate_fields(_, _, _, _, _, _)
\* for dest_field, spec in fields_entry.items(): the errors from the i-th key on
validate_fields(ctx, dest_fields, fields_entry, from_type, from_fields, i) ==
  IF i > Len(fields_entry) THEN <<>>
  ELSE validate_field(ctx, _build_lookup_get(dest_fields, Lower(fields_entry[i][1])),
                      fields_entry[i][2], from_type, from_fields) \o
       validate_fields(ctx, dest_fields, fields_entry, from_type, from_fields, i + 1)

\* missing_fields, were a key compared with a field name letter by letter.
missing_fields_exact(dest_fields, fields_entry) ==
  LET named == SelectSeq(dest_fields, LAMBDA f : ~HasKey(fields_entry, f[1]))
  IN [i \in 1..Len(named) |-> named[i][1]]

\* missing_fields: the destination fields no key of fields spells, in declaration order
missing_fields(dest_fields, fields_entry) ==
  LET named == SelectSeq(dest_fields,
                 LAMBDA f : \A i \in 1..Len(fields_entry) : Lower(fields_entry[i][1]) # Lower(f[1]))
  IN [i \in 1..Len(named) |-> named[i][1]]

\* extra_fields: the keys of fields that spell no destination field, in key order
extra_fields(dest_fields, fields_entry) ==
  LET extra == SelectSeq(fields_entry,
                 LAMBDA e : IsNone(_build_lookup_get(dest_fields, Lower(e[1]))))
  IN [i \in 1..Len(extra) |-> extra[i][1]]

missing_errors(ctx, to_type, missing) ==
  IF Len(missing) = 0 THEN <<>>
  ELSE <<Defect("missing mappings for destination fields", ctx, "", "", to_type, missing)>>

extra_errors(ctx, to_type, extra) ==
  [i \in 1..Len(extra) |->
     Defect("destination field does not exist", ctx, extra[i], "", to_type, <<>>)]

\* The source side of a record entry: from_type, from_fields and the errors appended.
SourceSide(from_type, from_fields, errors) ==
  [from_type |-> from_type, from_fields |-> from_fields, errors |-> errors]

source_of_named(ctx, from_type_raw, from_fields) ==
  SourceSide(Some(Strip(from_type_raw)), from_fields,
    (IF is_placeholder(from_type_raw)
       THEN <<Defect("source type is still a placeholder", ctx, "", from_type_raw, "", <<>>)>>
       ELSE <<>>) \o
    (IF Len(from_fields) = 0
       THEN <<Defect("source type not found or is not a record", ctx, "", "",
                     Strip(from_type_raw), <<>>)>>
       ELSE <<>>))

source_of(ctx, from_type_raw) ==
  IF ~TruthyStr(from_type_raw) \/ Strip(Shown(from_type_raw)) = ""
    THEN SourceSide(NoneVal, <<>>, <<Defect("source type ('from') is missing", ctx, "", "", "",
                                            <<>>)>>)
  ELSE IF is_default_sentinel(Val(from_type_raw))
    THEN SourceSide(Some(DEFAULT_SENTINEL), <<>>, <<>>)
  ELSE source_of_named(ctx, Val(from_type_raw),
                       OrEmpty(get_from_fields(Some(Strip(Val(from_type_raw))))))

\* _validate_mapping_entry from the source type on, for a destination record
validate_record_entry(ctx, to_type, dest_fields, fields_entry, source) ==
  IF IsNone(fields_entry)
    THEN source.errors \o <<Defect("'fields' must be an object", ctx, "", "", "", <<>>)>>
  ELSE source.errors \o
       missing_errors(ctx, to_type, missing_fields(dest_fields, Val(fields_entry))) \o
       extra_errors(ctx, to_type, extra_fields(dest_fields, Val(fields_entry))) \o
       validate_fields(ctx, dest_fields, Val(fields_entry), source.from_type,
                       source.from_fields, 1)

\* The source side of an enum entry: from_literals and the errors appended.
enum_source_of_named(ctx, from_type_raw, from_literals) ==
  [from_literals |-> from_literals,
   errors |->
     (IF is_placeholder(from_type_raw)
        THEN <<Defect("source type is still a placeholder", ctx, "", from_type_raw, "", <<>>)>>
        ELSE <<>>) \o
     (IF Len(from_literals) = 0
        THEN <<Defect("source type not found or is not an enum", ctx, "", "",
                      Strip(from_type_raw), <<>>)>>
        ELSE <<>>)]

enum_source_of(ctx, from_type_raw) ==
  IF ~TruthyStr(from_type_raw) \/ Strip(Shown(from_type_raw)) = ""
    THEN [from_literals |-> <<>>,
          errors |-> <<Defect("source type ('from') is missing for enum mapping", ctx, "", "",
                              "", <<>>)>>]
  ELSE IF is_default_sentinel(Val(from_type_raw)) THEN [from_literals |-> <<>>, errors |-> <<>>]
  ELSE enum_source_of_named(ctx, Val(from_type_raw),
                            _enum_literals("from", Some(Strip(Val(from_type_raw)))))

\* One pass of the literal loop of _validate_enum_entry.
validate_literal(ctx, dest_lit, src_spec, dest_literals, from_literals) ==
  IF dest_lit \notin Range(dest_literals)
    THEN <<Defect("destination literal does not exist", ctx, dest_lit, "", "", <<>>)>>
  ELSE IF src_spec.t # "str"
    THEN <<Defect("literal has unsupported mapping value", ctx, dest_lit, "", "", <<>>)>>
  ELSE IF is_placeholder(Strip(Val(src_spec.ref)))
    THEN <<Defect("literal still uses placeholder value", ctx, dest_lit, Val(src_spec.ref), "",
                  <<>>)>>
  ELSE IF is_default_sentinel(Strip(Val(src_spec.ref))) THEN <<>>
  ELSE IF Len(from_literals) > 0 /\
          IsNone(lookup_get(from_literals, Lower(Strip(Val(src_spec.ref)))))
    THEN <<Defect("literal references unknown source literal", ctx, dest_lit,
                  Val(src_spec.ref), "", <<>>)>>
  ELSE <<>>

RECURSIVE validate_literals(_, _, _, _, _)
validate_literals(ctx, fields_entry, dest_literals, from_literals, i) ==
  IF i > Len(fields_entry) THEN <<>>
  ELSE validate_literal(ctx, fields_entry[i][1], fields_entry[i][2], dest_literals,
                        from_literals) \o
       validate_literals(ctx, fields_entry, dest_literals, from_literals, i + 1)

\* missing: the destination literals that are no key of fields, in declaration order
missing_literals(dest_literals, fields_entry) ==
  SelectSeq(dest_literals, LAMBDA lit : ~HasKey(fields_entry, lit))

missing_literal_errors(ctx, to_type, missing) ==
  IF Len(missing) = 0 THEN <<>>
  ELSE <<Defect("missing mappings for enum literals", ctx, "", "", to_type, missing)>>

enum_entry_errors(ctx, to_type, fields_entry, dest_literals, source) ==
  IF IsNone(fields_entry)
    THEN source.errors \o
         <<Defect("'fields' must be an object mapping enum literals", ctx, "", "", "", <<>>)>>
  ELSE source.errors \o
       missing_literal_errors(ctx, to_type, missing_literals(dest_literals, Val(fields_entry))) \o
       validate_literals(ctx, Val(fields_entry), dest_literals, source.from_literals, 1)

_validate_enum_entry(ctx, to_type, from_type_raw, fields_entry, dest_literals) ==
  enum_entry_errors(ctx, to_type, fields_entry, dest_literals, enum_source_of(ctx, from_type_raw))

\* ctx: the name of the entry, if it has one
Ctx(name) == IF TruthyStr(name) THEN name ELSE NoneVal

\* _validate_mapping_entry from the destination type on
validate_entry_to(ctx, entry, to_type, dest_fields, dest_enum_literals) ==
  IF ~TruthyDict(dest_fields)
    THEN IF Len(dest_enum_literals) > 0
           THEN _validate_enum_entry(ctx, to_type, entry.from, entry.fields, dest_enum_literals)
         ELSE <<Defect("destination type not found or is not a record", ctx, "", "", to_type,
                       <<>>)>>
  ELSE validate_record_entry(ctx, to_type, Val(dest_fields), entry.fields,
                             source_of(ctx, entry.from))

\* _validate_mapping_entry, were the source type checked after a missing destination type.
_validate_mapping_entry_going_on(entry) ==
  IF ~TruthyStr(entry.to) \/ Strip(Shown(entry.to)) = ""
    THEN <<Defect("destination type ('to') is missing or empty", Ctx(entry.name), "", "", "",
                  <<>>)>> \o source_of(Ctx(entry.name), entry.from).errors
  ELSE validate_entry_to(Ctx(entry.name), entry, Strip(Val(entry.to)),
                         get_to_fields(Some(Strip(Val(entry.to)))),
                         _enum_literals("to", Some(Strip(Val(entry.to)))))

_validate_mapping_entry(entry) ==
  IF ~TruthyStr(entry.to) \/ Strip(Shown(entry.to)) = ""
    THEN <<Defect("destination type ('to') is missing or empty", Ctx(entry.name), "", "", "",
                  <<>>)>>
  ELSE validate_entry_to(Ctx(entry.name), entry, Strip(Val(entry.to)),
                         get_to_fields(Some(Strip(Val(entry.to)))),
                         _enum_literals("to", Some(Strip(Val(entry.to)))))

RECURSIVE validate_entries(_, _)
\* The loop over the entries, were it left at the first entry that has a defect.
validate_entries_until_defect(entries, i) ==
  IF i > Len(entries) THEN <<>>
  ELSE IF Len(_validate_mapping_entry(entries[i])) > 0 THEN _validate_mapping_entry(entries[i])
  ELSE validate_entries(entries, i + 1)

\* for entry in mappings: errors.extend(_validate_mapping_entry(entry, mg, provider))
validate_entries(entries, i) ==
  IF i > Len(entries) THEN <<>>
  ELSE _validate_mapping_entry(entries[i]) \o validate_entries(entries, i + 1)

validate_mappings(entries) == validate_entries(entries, 1)

(***************************************************************************)
(* Validation of a mapping specification of one or two entries: a record   *)
(* entry for T_Two with up to two keys, alone or next to another entry     *)
(* (an entry with a fatal destination type, an enum entry, or a clean      *)
(* record entry), in either order.                                         *)
(***************************************************************************)
ValidateFromIndex == ValueFromIndex({})
ValidateToIndex ==
  [ValueToIndex({}) EXCEPT
     !.records = @ @@ ("T_Two" :> << <<"Inner", "T_In">>, <<"Tag", "T_Enum">> >>)]

FirstKeys == {"Inner", "inner", "Bogus"}
FirstSpecs ==
  {StrSpec(r) : r \in {"Inner", "INNER", "Tag", "Nope", "Inner.Val", "Inner.Missing",
                       "__DEFAULT__", "<src>"}} \cup
  {ObjSpec(Some("Inner"), NoneVal), ObjSpec(Some("Nope"), NoneVal), ObjSpec(Some("<src>"), NoneVal),
   ObjSpec(Some("Tag.Val"), NoneVal), ObjSpec(NoneVal, NoneVal), OtherSpec}
TagSpecs ==
  {StrSpec("Tag"), StrSpec("X"), StrSpec("<src>"),
   ObjSpec(Some("Tag"), EnumMap(<< <<"Red", "Green">>, <<"Blue", "Cyan">> >>)),
   ObjSpec(Some("Nope"), EnumMapNoDict)}

TwoFields ==
  {<<>>} \cup
  {<< <<k, v>> >> : k \in FirstKeys, v \in FirstSpecs} \cup
  {<< <<"Tag", v>> >> : v \in TagSpecs} \cup
  {<< <<k, v>>, <<"Tag", w>> >> : k \in FirstKeys, v \in FirstSpecs, w \in TagSpecs}

TwoSources ==
  {NoneVal, Some("F_Out"), Some("F_Nope"), Some("F_Enum"), Some("__DEFAULT__"), Some("<from>")}

TwoEntries ==
  {RawEntry(Some("two"), from, Some("T_Two"), Some(fields)) :
     from \in TwoSources, fields \in TwoFields} \cup
  {RawEntry(Some("two"), from, Some("T_Two"), NoneVal) : from \in TwoSources}

\* Entries whose destination type is missing, empty, blank, an array or unknown.
FatalEntries ==
  {RawEntry(name, from, to, Some(<< <<"Inner", StrSpec("<src>")>>, <<"Bogus", StrSpec("Nope")>> >>)) :
     name \in {NoneVal, Some("fatal")}, from \in {NoneVal, Some("<from>")},
     to \in {NoneVal, Some(""), Some("  "), Some("T_Arr"), Some("T_Nope")}}

EnumFields ==
  {<< <<"Green", StrSpec("Green")>>, <<"Red", StrSpec("Red")>> >>,
   << <<"Green", StrSpec("green")>> >>,
   << <<"red", StrSpec("Red")>>, <<"Green", StrSpec("Green")>> >>,
   << <<"Green", StrSpec("Green")>>, <<"Red", StrSpec("Blue")>>, <<"Cyan", StrSpec("Red")>> >>,
   << <<"Green", StrSpec("<lit>")>>, <<"Red", StrSpec("__DEFAULT__")>> >>,
   << <<"Green", OtherSpec>>, <<"Red", StrSpec("Red")>> >>}

EnumEntries ==
  {RawEntry(Some("colour"), from, Some("T_Enum"), fields) :
     from \in {NoneVal, Some("F_Enum"), Some("F_Nope"), Some("<from>")},
     fields \in {Some(f) : f \in EnumFields} \cup {NoneVal}}

CleanEntry == RawEntry(Some("inner"), Some("F_In"), Some("T_In"), Some(<< <<"VAL", StrSpec("Val")>> >>))

OtherEntries == FatalEntries \cup EnumEntries \cup {CleanEntry}

\* The entries that stand next to an entry for T_Two.
Companions ==
  {e \in FatalEntries : e.name = Some("fatal") /\ e.from = NoneVal} \cup
  {RawEntry(Some("colour"), Some("F_Enum"), Some("T_Enum"), Some(f)) : f \in EnumFields} \cup
  {CleanEntry}

InitValidate ==
  /\ mappings \in {<<e>> : e \in TwoEntries \cup OtherEntries} \cup
                  {<<e, c>> : e \in TwoEntries, c \in Companions} \cup
                  {<<c, e>> : e \in TwoEntries, c \in Companions}
  /\ index = [from |-> ValidateFromIndex, to |-> ValidateToIndex]
  /\ mapping_pairs = {}
  /\ call = IdleCall /\ needed_array_maps = {} /\ needed_enum_maps = {}
  /\ enum_overrides = <<>> /\ pc = "validate" /\ out = NoOutput

\* mapping_pairs of validate_mappings: the (from, to) of the entries that name both
declared_pairs(entries) ==
  {<<Strip(Val(entries[i].from)), Strip(Val(entries[i].to))>> :
     i \in {j \in 1..Len(entries) :
              /\ ~IsNone(entries[j].from) /\ ~IsNone(entries[j].to)
              /\ ~is_placeholder(Val(entries[j].from))}}

\* validate_mappings(mappings, provider): the pairs of the entries, then every entry.
Validate ==
  /\ pc = "validate"
  /\ mapping_pairs' = declared_pairs(mappings)
  /\ \E errors \in {validate_mappings(mappings)} :
       call' = [op |-> "validate_mappings", result |-> errors]
  /\ pc' = "validated"
  /\ UNCHANGED <<index, needed_array_maps, needed_enum_maps, enum_overrides, mappings, out>>

NextValidate == Validate

SpecValidate == InitValidate /\ [][NextValidate]_vars

Validated == pc = "validated"
\* The defects reported for the i-th entry; the entries of a specification have
\* different names.
ErrorsOf(i) == SelectSeq(call.result, LAMBDA d : d.ctx = Ctx(mappings[i].name))
ErrorsAlone(entry) == validate_mappings(<<entry>>)
\* The defects of the checks of the destination field of a name.
AboutField(errors, name) ==
  SelectSeq(errors, LAMBDA d : d.field = name /\ d.kind # "destination field does not exist")
OnlyField(entry, i) == [entry EXCEPT !.fields = Some(<<Val(entry.fields)[i]>>)]
TwoKeys(i) ==
  /\ mappings[i].to = Some("T_Two") /\ ~IsNone(mappings[i].fields)
  /\ Len(Val(mappings[i].fields)) = 2

\* C17: the list validate_mappings returns is the defects of the first entry followed by
\* those of the second, each entry having the defects it has when validated alone; in an
\* entry with two keys, the defects of the checks of one field are those the field has
\* when it is the only key.
C17_EveryDefectCollected ==
  Validated =>
    /\ call.result = ErrorsOf(1) \o (IF Len(mappings) = 2 THEN ErrorsOf(2) ELSE <<>>)
    /\ \A i \in 1..Len(mappings) :
         /\ ErrorsOf(i) = ErrorsAlone(mappings[i])
         /\ TwoKeys(i) =>
              /\ AboutField(ErrorsOf(i), "Inner") =
                   AboutField(ErrorsAlone(OnlyField(mappings[i], 1)), "Inner")
              /\ AboutField(ErrorsOf(i), "Tag") =
                   AboutField(ErrorsAlone(OnlyField(mappings[i], 2)), "Tag")

\* Two entries with defects: the first has a defect in each of its two fields, and the
\* defects of the second follow.
C17_Witness ==
  /\ Validated /\ Len(mappings) = 2 /\ TwoKeys(1)
  /\ Len(AboutField(ErrorsOf(1), "Inner")) > 0
  /\ Len(AboutField(ErrorsOf(1), "Tag")) > 0
  /\ Len(ErrorsOf(2)) > 0
  /\ Len(call.result) = Len(ErrorsOf(1)) + Len(ErrorsOf(2))

\* The destination type of an entry is missing, empty or blank, or resolves neither as a
\* record nor as an enum of the destination schema.
FatalDestination(entry) ==
  \/ ~TruthyStr(entry.to)
  \/ Strip(Val(entry.to)) = ""
  \/ /\ ~TruthyDict(get_record_fields("to", Strip(Val(entry.to))))
     /\ ~TruthyDict(get_enum_literals("to", Strip(Val(entry.to))))

FatalKinds ==
  {"destination type ('to') is missing or empty", "destination type not found or is not a record"}

\* C18: an entry with such a destination type has exactly one defect, the one of the
\* destination type, whatever its source type and its fields are; the other entry of the
\* specification has the defects it has when validated alone.
C18_FatalDestination ==
  Validated =>
    \A i \in 1..Len(mappings) :
      IF FatalDestination(mappings[i])
        THEN Len(ErrorsOf(i)) = 1 /\ ErrorsOf(i)[1].kind \in FatalKinds
      ELSE /\ ErrorsOf(i) = ErrorsAlone(mappings[i])
           /\ \A d \in Range(ErrorsOf(i)) : d.kind \notin FatalKinds

\* An entry without destination type, without source type and with a placeholder field
\* comes first, and the defects of the entry after it are reported.
C18_Witness ==
  /\ Validated /\ Len(mappings) = 2
  /\ IsNone(mappings[1].to) /\ IsNone(mappings[1].from)
  /\ Len(ErrorsOf(1)) = 1
  /\ Len(ErrorsOf(2)) > 1

\* The names of the destination of an entry, and the keys of its fields.
DestNames(entry) ==
  IF TruthyDict(get_record_fields("to", Strip(Val(entry.to))))
    THEN Keys(Val(get_record_fields("to", Strip(Val(entry.to)))))
  ELSE Range(OrEmpty(get_enum_literals("to", Strip(Val(entry.to)))))
IsRecordEntry(entry) ==
  ~FatalDestination(entry) /\ TruthyDict(get_record_fields("to", Strip(Val(entry.to))))
FieldKeys(entry) == Keys(Val(entry.fields))
MissingKinds == {"missing mappings for destination fields", "missing mappings for enum literals"}
ExtraKinds == {"destination field does not exist", "destination literal does not exist"}
ReportedMissing(errors) ==
  UNION {Range(d.names) : d \in {e \in Range(errors) : e.kind \in MissingKinds}}
ReportedExtra(errors) == {d.field : d \in {e \in Range(errors) : e.kind \in ExtraKinds}}
SameSpelling(entry, a, b) == IF IsRecordEntry(entry) THEN Lower(a) = Lower(b) ELSE a = b
Checkable(entry) == ~FatalDestination(entry) /\ ~IsNone(entry.fields)

\* C19 as stated: the names reported missing are the destination names that are no key,
\* the keys reported are the keys that are no destination name, and there is no such
\* defect exactly when the key set is the set of destination names.
C19_KeySetEqualsNames ==
  Validated =>
    \A i \in 1..Len(mappings) :
      Checkable(mappings[i]) =>
        /\ ReportedMissing(ErrorsOf(i)) = DestNames(mappings[i]) \ FieldKeys(mappings[i])
        /\ ReportedExtra(ErrorsOf(i)) = FieldKeys(mappings[i]) \ DestNames(mappings[i])
        /\ (ReportedMissing(ErrorsOf(i)) \cup ReportedExtra(ErrorsOf(i)) = {})
             <=> (FieldKeys(mappings[i]) = DestNames(mappings[i]))

\* C19: a destination name is reported missing when no key spells it, a key is reported
\* when it spells no destination name, where a key spells a field of a record in any
\* letter case and a literal of an enum letter by letter; there is no such defect exactly
\* when every destination name is spelled by a key and every key spells one.
C19_KeysSpellNames ==
  Validated =>
    \A i \in 1..Len(mappings) :
      Checkable(mappings[i]) =>
        LET entry == mappings[i]
            missing == {n \in DestNames(entry) :
                          \A k \in FieldKeys(entry) : ~SameSpelling(entry, k, n)}
            extra == {k \in FieldKeys(entry) :
                        \A n \in DestNames(entry) : ~SameSpelling(entry, k, n)}
        IN /\ ReportedMissing(ErrorsOf(i)) = missing
           /\ ReportedExtra(ErrorsOf(i)) = extra
           /\ Cardinality({d \in Range(ErrorsOf(i)) : d.kind \in ExtraKinds}) = Cardinality(extra)
           /\ Len(SelectSeq(ErrorsOf(i), LAMBDA d : d.kind \in MissingKinds)) =
                IF missing = {} THEN 0 ELSE 1

\* A record entry whose key 'inner' spells the field Inner in another letter case has
\* neither defect, next to an enum entry whose key 'red' is reported and whose literal
\* Red is reported missing.
C19_Witness ==
  /\ Validated /\ Len(mappings) = 2
  /\ IsRecordEntry(mappings[1]) /\ Checkable(mappings[1]) /\ Checkable(mappings[2])
  /\ FieldKeys(mappings[1]) = {"inner", "Tag"}
  /\ ReportedMissing(ErrorsOf(1)) \cup ReportedExtra(ErrorsOf(1)) = {}
  /\ ReportedExtra(ErrorsOf(2)) = {"red"}
  /\ ReportedMissing(ErrorsOf(2)) = {"Red"}

\* The source reference of a value of fields that is neither absent, the sentinel nor
\* a placeholder, stripped.
HasReference(spec) ==
  /\ spec.t \in {"str", "obj"} /\ TruthyStr(spec.ref)
  /\ ~is_placeholder(Strip(Val(spec.ref))) /\ ~is_default_sentinel(Strip(Val(spec.ref)))
Reference(spec) == Strip(Val(spec.ref))
SourceFields(entry) ==
  IF TruthyStr(entry.from) THEN OrEmpty(get_from_fields(Some(Strip(Val(entry.from))))) ELSE <<>>
\* The reference names no field of the declared source type, in any letter case, and
\* its path cannot be walked from it.
DoesNotResolve(entry, ref) ==
  IF IsDotted(ref)
    THEN \/ ~TruthyStr(entry.from)
         \/ IsNone(resolve_src_path_type(Strip(Val(entry.from)), ref))
  ELSE \A f \in Range(SourceFields(entry)) : Lower(f[1]) # Lower(ref)
DestField(entry, key) ==
  _build_lookup_get(Val(get_record_fields("to", Strip(Val(entry.to)))), Lower(key))

\* C20: in a record entry, every key that names a destination field and whose source
\* reference does not resolve against the declared source type has a defect that names
\* the field and the reference, and for a plain name the source type.
C20_UnresolvedReported ==
  Validated =>
    \A i \in 1..Len(mappings) :
      (IsRecordEntry(mappings[i]) /\ Checkable(mappings[i])) =>
        \A j \in 1..Len(Val(mappings[i].fields)) :
          LET key == Val(mappings[i].fields)[j][1]
              spec == Val(mappings[i].fields)[j][2]
          IN (/\ ~IsNone(DestField(mappings[i], key))
              /\ HasReference(spec)
              /\ DoesNotResolve(mappings[i], Reference(spec))) =>
               \E d \in Range(ErrorsOf(i)) :
                 /\ d.field = Val(DestField(mappings[i], key))[1]
                 /\ d.value = Reference(spec)
                 /\ ~IsDotted(Reference(spec)) => d.type = Shown(mappings[i].from)

\* The placeholder tokens of an entry: its 'from', and the source references of the
\* values of 'fields', in string or object form.
PlaceholdersOf(entry) ==
  (IF TruthyStr(entry.from) /\ is_placeholder(Val(entry.from)) THEN {Val(entry.from)} ELSE {}) \cup
  (IF IsNone(entry.fields) THEN {}
   ELSE {Strip(Val(e[2].ref)) :
           e \in {f \in Range(Val(entry.fields)) :
                    /\ f[2].t \in {"str", "obj"} /\ TruthyStr(f[2].ref)
                    /\ is_placeholder(Strip(Val(f[2].ref)))}})
\* The text of a defect holds the token.
Quotes(d, token) == token \in {d.value, d.type, d.field} \cup Range(d.names)
Named(entry) == TruthyStr(entry.name)

\* C21: for every placeholder token of a named entry, as its 'from' or as the source
\* reference of a key of its 'fields', the list validation returns holds a defect with
\* the name of the entry and the token.
C21_PlaceholderReported ==
  Validated =>
    \A i \in 1..Len(mappings) :
      Named(mappings[i]) =>
        \A token \in PlaceholdersOf(mappings[i]) :
          \E d \in Range(ErrorsOf(i)) : Quotes(d, token)

(***************************************************************************)
(* Validation of one record entry F_Out -> T_Out with two keys: each names *)
(* a destination field of scalar, record, enum or array type and refers to *)
(* a source field or path of any of these kinds, in string or object form. *)
(***************************************************************************)
FamilyRefs == {"X", "Inner", "inner", "Tag", "Arr", "Nope", "Inner.Val", "Inner.Missing"}
FamilySpecs == {StrSpec(r) : r \in FamilyRefs} \cup {ObjSpec(Some(r), NoneVal) : r \in FamilyRefs}
FamilyDests == {"x", "Inner", "Tag", "Arr", "ARR"}

InitFamily ==
  /\ \E d1 \in FamilyDests, d2 \in FamilyDests \ {"x"}, v1 \in FamilySpecs, v2 \in FamilySpecs :
       /\ Lower(d1) # Lower(d2)
       /\ mappings = << RawEntry(Some("out"), Some("F_Out"), Some("T_Out"),
                                 Some(<< <<d1, v1>>, <<d2, v2>> >>)) >>
  /\ index = [from |-> ValueFromIndex({}), to |-> ValueToIndex({})]
  /\ mapping_pairs = {}
  /\ call = IdleCall /\ needed_array_maps = {} /\ needed_enum_maps = {}
  /\ enum_overrides = <<>> /\ pc = "validate" /\ out = NoOutput

SpecFamily == InitFamily /\ [][NextValidate]_vars

\* The source type S a reference resolves to against the declared source type: the type
\* of the source field it spells in any letter case, or of the last segment of its path.
ResolvesTo(entry, ref) ==
  IF IsDotted(ref) THEN resolve_src_path_type(Strip(Val(entry.from)), ref)
  ELSE LET at == {f \in Range(SourceFields(entry)) : Lower(f[1]) = Lower(ref)} IN
       IF at = {} THEN NoneVal ELSE Some((CHOOSE f \in at : TRUE)[2])
IsRecord(domain, t) == TruthyDict(get_record_fields(domain, t))
IsArray(domain, t) == TruthyStr(get_array_element_type(domain, t))
FamilyDefects(errors, kind, field) == {d \in Range(errors) : d.kind = kind /\ d.field = field}

\* C22: for a key that names a destination field of type D and whose source reference
\* resolves to the source type S, validation reports a defect that names the field, D
\* and S exactly when D is a record and S is no record of the source schema, and another
\* exactly when D is an array and S is no array; when D and S are both records or both
\* arrays it reports neither.
C22_FamilyMismatch ==
  Validated =>
    \A j \in 1..Len(Val(mappings[1].fields)) :
      LET entry == mappings[1]
          spec == Val(entry.fields)[j][2]
          dest == Val(DestField(entry, Val(entry.fields)[j][1]))
          S == ResolvesTo(entry, Reference(spec))
      IN ~IsNone(S) =>
           /\ (IsRecord("to", dest[2]) /\ ~IsRecord("from", Val(S)))
                <=> FamilyDefects(call.result, "expects record type", dest[1]) # {}
           /\ (IsArray("to", dest[2]) /\ ~IsArray("from", Val(S)))
                <=> FamilyDefects(call.result, "expects array type", dest[1]) # {}
           /\ \A d \in FamilyDefects(call.result, "expects record type", dest[1]) \cup
                       FamilyDefects(call.result, "expects array type", dest[1]) :
                d.type = dest[2] /\ d.value = Val(S) /\ d.ctx = Some("out")

\* The record field Inner is filled from an array and the array field, keyed in another
\* letter case, from a field of a nested record: both mismatches are reported.
C22_Witness ==
  /\ Validated
  /\ Val(mappings[1].fields)[1] = <<"Inner", ObjSpec(Some("Arr"), NoneVal)>>
  /\ Val(mappings[1].fields)[2] = <<"ARR", StrSpec("Inner.Val")>>
  /\ FamilyDefects(call.result, "expects record type", "Inner") # {}
  /\ FamilyDefects(call.result, "expects array type", "Arr") # {}

(***************************************************************************)
(* Validation run twice by one caller on the same mapping specification    *)
(* and the same provider.  Each run creates its own MapperGenerator, error *)
(* list and enum caches; the provider keeps the two parsed indexes.        *)
(***************************************************************************)
\* The second run, were the error list of the first run kept and extended.
Revalidate_extending ==
  /\ pc = "validated"
  /\ mapping_pairs' = declared_pairs(mappings)
  /\ \E errors \in {validate_mappings(mappings)} :
       call' = [op |-> "validate_mappings", result |-> call.result \o errors]
  /\ pc' = "revalidated"
  /\ UNCHANGED <<index, needed_array_maps, needed_enum_maps, enum_overrides, mappings, out>>

\* validate_mappings(mappings, provider) called again after it returned
Revalidate ==
  /\ pc = "validated"
  /\ mapping_pairs' = declared_pairs(mappings)
  /\ \E errors \in {validate_mappings(mappings)} :
       call' = [op |-> "validate_mappings", result |-> errors]
  /\ pc' = "revalidated"
  /\ UNCHANGED <<index, needed_array_maps, needed_enum_maps, enum_overrides, mappings, out>>

NextRevalidate == Validate \/ Revalidate

SpecRevalidate == InitValidate /\ [][NextRevalidate]_vars

AbcNames == <<"A", "B", "C">>
AbcSourceTypes == {"I32", "U8", "F_Enum", "F_Arr"}
AbcDestTypes == {"I16", "U8", "T_Enum", "T_Arr"}
AbcOrders == {<<1, 2, 3>>, <<3, 1, 2>>}

AbcFromIndex(types) ==
  [EmptyIndex EXCEPT
     !.records = ("F_Abc" :> [i \in 1..3 |-> <<AbcNames[i], types[i]>>]),
     !.arrays = ("F_Arr" :> "I32"), !.array_dims = ("F_Arr" :> 1),
     !.enums = ("F_Enum" :> <<"Red", "Green">>)]

AbcToIndex(types) ==
  [EmptyIndex EXCEPT
     !.records = ("T_Abc" :> [i \in 1..3 |-> <<AbcNames[i], types[i]>>]),
     !.arrays = ("T_Arr" :> "I16"), !.array_dims = ("T_Arr" :> 1),
     !.enums = ("T_Enum" :> <<"Green", "Red">>)]

InitAbc ==
  /\ \E st \in [1..3 -> AbcSourceTypes], dt \in [1..3 -> AbcDestTypes], order \in AbcOrders :
       /\ index = [from |-> AbcFromIndex(st), to |-> AbcToIndex(dt)]
       /\ mappings = << Entry("F_Abc", "T_Abc",
                              [i \in 1..3 |-> <<AbcNames[order[i]], AbcNames[order[i]]>>], <<>>) >>
  /\ mapping_pairs = {<<"F_Abc", "T_Abc">>}
  /\ call = IdleCall /\ needed_array_maps = {} /\ needed_enum_maps = {}
  /\ enum_overrides = <<>> /\ pc = "compile" /\ out = NoOutput

SpecAbc == InitAbc /\ [][NextGen]_vars

AbcCompiled == <<"F_Abc", "T_Abc">> \in DOMAIN out.record
AbcBody == out.record[<<"F_Abc", "T_Abc">>]
AbcSourceType(name) == Get(Val(get_record_fields("from", "F_Abc")), name)
AbcDestType(name) == Get(Val(get_record_fields("to", "T_Abc")), name)
AllScalars ==
  \A i \in 1..3 : /\ IsScalar("from", AbcSourceType(AbcNames[i]))
                  /\ IsScalar("to", AbcDestType(AbcNames[i]))
WholeRecord == Access("X", <<>>, <<>>)

\* C24: when every field of the two records is a scalar, the compiled function has one
\* association per field of the entry, in the order of the entry, each the cast
\* <destination field type> (X.<field>) of the source field of the same name; no
\* association converts the whole record X; and the two need-sets stay empty, so no
\* array or enum helper is ever rendered.
C24_ScalarFieldsCast ==
  (AbcCompiled /\ AllScalars) =>
    /\ ~AbcBody.raised
    /\ Len(AbcBody.associations) = 3
    /\ \A i \in 1..3 :
         LET field == mappings[1].fields[i][1] IN
         /\ AbcBody.associations[i] =
              Association(field, Cast(AbcDestType(field), Access("X", <<>>, <<field>>)), NoneVal)
         /\ AbcBody.associations[i].expr.arg # WholeRecord
    /\ needed_array_maps = {} /\ needed_enum_maps = {}
    /\ DOMAIN out.array = {} /\ DOMAIN out.enum = {}

\* Three scalar fields of narrower destination types are compiled, listed in another
\* order than declared, and the run has gone on to rendering with nothing to render.
C24_Witness ==
  /\ AbcCompiled /\ AllScalars /\ pc = "render"
  /\ mappings[1].fields[1][1] = "C"
  /\ \A i \in 1..3 : AbcSourceType(AbcNames[i]) = "I32" /\ AbcDestType(AbcNames[i]) = "I16"
  /\ AbcBody.associations[1].expr = Cast("I16", Access("X", <<>>, <<"C">>))

(***************************************************************************)
(* A whole run: the caller validates the mapping specification, and only   *)
(* when validation returns no defect hands the entries to the compiler,    *)
(* which compiles them, closes the array need-set and renders the helpers. *)
(* One record entry maps the five fields of T_Out; the literals of the     *)
(* source enum, the source type and the source references are drawn.       *)
(***************************************************************************)
RunSourceLiterals == {<<"Red", "Green">>, <<"Green", "Red">>, <<"Red", "Green", "Blue">>, <<"Blue">>}
RunSources == {Some("F_Out"), Some("__DEFAULT__"), NoneVal}
RunTagSpecs ==
  {StrSpec("Tag"), StrSpec("tag"), StrSpec("X"),
   ObjSpec(Some("Tag"), EnumMap(<< <<"Blue", "Green">> >>)),
   ObjSpec(Some("Tag"), EnumMap(<< <<"Blue", "Cyan">> >>))}
RunInnerSpecs == {StrSpec("Inner"), StrSpec("X"), StrSpec("__DEFAULT__")}
RunExtraSpecs == {StrSpec("X"), StrSpec("Inner.Val"), StrSpec("Inner.Missing"), StrSpec("<src>")}

RunFromIndex(literals) == [ValueFromIndex({}) EXCEPT !.enums = ("F_Enum" :> literals)]

InitRun ==
  /\ \E literals \in RunSourceLiterals, from \in RunSources, tag \in RunTagSpecs,
        inner \in RunInnerSpecs, extra \in RunExtraSpecs :
       /\ index = [from |-> RunFromIndex(literals), to |-> ValueToIndex({})]
       /\ mappings = << RawEntry(Some("out"), from, Some("T_Out"),
                                 Some(<< <<"x", StrSpec("X")>>, <<"Inner", inner>>, <<"Tag", tag>>,
                                         <<"Arr", StrSpec("Arr")>>, <<"Extra", extra>> >>)) >>
  /\ mapping_pairs = {}
  /\ call = IdleCall /\ needed_array_maps = {} /\ needed_enum_maps = {}
  /\ enum_overrides = <<>> /\ pc = "validate" /\ out = NoOutput

\* The entry as the compiler takes it: from, to, the source reference of each key of
\* 'fields', and the 'enum_map' tables of the keys that carry one.
compiler_entry(raw) ==
  LET fields == Val(raw.fields)
      carrying == SelectSeq(fields, LAMBDA f : ~IsNone(f[2].enum_map))
  IN Entry(Strip(Val(raw.from)), Strip(Val(raw.to)),
           [i \in 1..Len(fields) |-> <<fields[i][1], Val(fields[i][2].ref)>>],
           [i \in 1..Len(carrying) |-> <<carrying[i][1], Val(carrying[i][2].enum_map).entries>>])

\* Validation returned no defect: the caller creates the compiler for the entries.
Load ==
  /\ pc = "validated"
  /\ call.result = <<>>
  /\ mappings' = [i \in 1..Len(mappings) |-> compiler_entry(mappings[i])]
  /\ mapping_pairs' = {<<Strip(Val(mappings[i].from)), Strip(Val(mappings[i].to))>> :
                         i \in 1..Len(mappings)}
  /\ pc' = "compile"
  /\ UNCHANGED <<index, call, needed_array_maps, needed_enum_maps, enum_overrides, out>>

NextRun == Validate \/ Load \/ NextGen

SpecRun == InitRun /\ [][NextRun]_vars

\* The run passed validation.
Accepted == pc \in {"compile", "render", "aborted"}

\* C25: in a run whose specification passed validation, no compilation of an entry and
\* no rendering of a helper raises an error; every rendered enum helper has an arm for
\* each literal of its source enum.
C25_CleanCompiles ==
  Accepted =>
    /\ pc # "aborted"
    /\ \A pair \in DOMAIN out.record : ~out.record[pair].raised
    /\ \A pair \in DOMAIN out.enum :
         /\ ~out.enum[pair].raised
         /\ Len(out.enum[pair].arms) = Len(FromLits(pair))

(***************************************************************************)
(* Linked records.  A node record holds a value and a link: a field whose  *)
(* declared type is "access <record>", which the type model keeps as the   *)
(* name of the record.  The link leads back to the node itself, or to a    *)
(* peer record that leads back to the node, or the node has no link.  The  *)
(* top record holds the node directly or in an array, beside a field of    *)
(* nested arrays and an enum field.  Both schemas have the same shape.     *)
(***************************************************************************)
LinkShapes == {"none", "self", "through_peer"}
LinkHolders == {"field", "array"}
LinkDataLevels == 1..3

LinkFields(side, shape) ==
  << <<"V", IF side = "F" THEN "I32" ELSE "I16">> >> \o
  (CASE shape = "none" -> <<>>
     [] shape = "self" -> << <<"Next", side \o "_Node">> >>
     [] shape = "through_peer" -> << <<"Peer", side \o "_Peer">> >>)

LinkIndex(side, shape, holder, level) ==
  [EmptyIndex EXCEPT
     !.records =
       (side \o "_Out" :>
          << <<"N", IF holder = "field" THEN side \o "_Node" ELSE side \o "_List">>,
             <<"Data", side \o "_A" \o ToString(level)>>,
             <<"Tag", side \o "_Enum">> >>) @@
       (side \o "_Node" :> LinkFields(side, shape)) @@
       (side \o "_Peer" :> << <<"Back", side \o "_Node">> >>),
     !.arrays = (side \o "_List" :> side \o "_Node") @@
                (side \o "_A1" :> (IF side = "F" THEN "I32" ELSE "I16")) @@
                (side \o "_A2" :> side \o "_A1") @@ (side \o "_A3" :> side \o "_A2"),
     !.array_dims = (side \o "_List" :> 1) @@ (side \o "_A1" :> 1) @@
                    (side \o "_A2" :> 1) @@ (side \o "_A3" :> 1),
     !.enums = (side \o "_Enum" :> <<"Red", "Green">>)]

\* A declared conversion maps every field of the destination from its namesake.
LinkEntry(from, to, names) == Entry(from, to, [i \in 1..Len(names) |-> <<names[i], names[i]>>], <<>>)

LinkNodeEntry(shape) ==
  LinkEntry("F_Node", "T_Node",
            [i \in 1..Len(LinkFields("T", shape)) |-> LinkFields("T", shape)[i][1]])

InitLink ==
  /\ \E shape \in LinkShapes, holder \in LinkHolders, level \in LinkDataLevels,
        declared \in BOOLEAN :
       /\ index = [from |-> LinkIndex("F", shape, holder, level),
                   to |-> LinkIndex("T", shape, holder, level)]
       /\ mappings = << LinkEntry("F_Out", "T_Out", <<"N", "Data", "Tag">>) >> \o
                     (IF declared THEN << LinkNodeEntry(shape) >> ELSE <<>>)
  /\ mapping_pairs = {<<mappings[i].from, mappings[i].to>> : i \in 1..Len(mappings)}
  /\ call = IdleCall /\ needed_array_maps = {} /\ needed_enum_maps = {}
  /\ enum_overrides = <<>> /\ pc = "compile" /\ out = NoOutput

SpecLink == InitLink /\ [][NextGen]_vars

\* The pairs of array types of the two schemas.
LinkArrayPairs == (DOMAIN index.from.arrays) \X (DOMAIN index.to.arrays)

\* The need-set is closed after at most one addition per pair of array types.
LinkClosureBounded ==
  pc = "render" =>
    /\ needed_array_maps \subseteq LinkArrayPairs
    /\ expand_array_pairs_transitively(needed_array_maps) = needed_array_maps

\* C26: every compilation run terminates: over schemas with a record that refers back to
\* itself, directly or through another record, no call of value_expr runs out of the
\* recursion depth, and the closure of the array need-set ends with a pass that adds
\* nothing, within the pairs of array types of the two schemas.
C26_RunTerminates ==
  /\ \A pair \in DOMAIN out.record : ~out.record[pair].raised
  /\ pc # "aborted"
  /\ LinkClosureBounded

(***************************************************************************)
(* scaffold.py: MappingScaffolder.  A mapping file is a list of entries    *)
(* with the keys name, from, to and fields; here every value of 'fields'   *)
(* is a string (a source name, a dotted path, the default sentinel or a    *)
(* placeholder), and the schemas declare records, enums and scalars, so    *)
(* that the branches of _build_entry for object specifications and for     *)
(* array fields are not entered.                                           *)
(***************************************************************************)
\* re.sub(r"[^A-Za-z0-9]+", "_", name.upper()).strip("_")
TokenTable ==
  [s \in {"V", "X", "Inner", "Tag", "Red", "Green", "T_In", "T_Out", "T_Enum"} |->
     CASE s = "V" -> "V" [] s = "X" -> "X" [] s = "Inner" -> "INNER" [] s = "Tag" -> "TAG"
       [] s = "Red" -> "RED" [] s = "Green" -> "GREEN" [] s = "T_In" -> "T_IN"
       [] s = "T_Out" -> "T_OUT" [] s = "T_Enum" -> "T_ENUM"]

_field_placeholder(field_name) == "<" \o TokenTable[field_name] \o "_INPUT_FIELD>"

_from_placeholder(type_name) == "<SOURCE_TYPE_FOR_" \o TokenTable[type_name] \o ">"

\* The strings of a mapping file that start with "<" and end with ">".
ScaffoldPlaceholders ==
  {_field_placeholder(n) : n \in {"V", "X", "Inner", "Tag", "Red", "Green"}} \cup
  {_from_placeholder(t) : t \in {"T_In", "T_Out", "T_Enum"}} \cup Placeholders

MappingScaffolder_is_placeholder(value) == value \in ScaffoldPlaceholders

\* type_name[2:] when the name starts with "T_" and is longer than two characters
_default_name(type_name) ==
  CASE type_name = "T_In" -> "In" [] type_name = "T_Out" -> "Out"
    [] type_name = "T_Enum" -> "Enum" [] OTHER -> type_name

MappingRequest(name, to_type, from_type, existing_fields) ==
  [name |-> name, to_type |-> to_type, from_type |-> from_type,
   existing_fields |-> existing_fields]

_has_supported_type(domain, type_name) ==
  /\ type_name # ""
  /\ \/ ~IsNone(get_record_fields(domain, type_name))
     \/ TruthyStr(get_array_element_type(domain, type_name))
     \/ TruthyDict(get_enum_literals(domain, type_name))

_entry_all_placeholders(entry) ==
  /\ MappingScaffolder_is_placeholder(entry.from) \/ Upper(Strip(entry.from)) = DEFAULT_SENTINEL
  /\ \A i \in 1..Len(entry.fields) :
       LET cleaned == Strip(entry.fields[i][2]) IN
       cleaned = "" \/ MappingScaffolder_is_placeholder(cleaned) \/ Upper(cleaned) = DEFAULT_SENTINEL

\* dict.setdefault(key, value)
SetDefault(d, key, value) == IF HasKey(d, key) THEN d ELSE d \o << <<key, value>> >>

\* d[key] = value
SetItem(d, key, value) ==
  IF HasKey(d, key) THEN [i \in 1..Len(d) |-> IF d[i][1] = key THEN <<key, value>> ELSE d[i]]
  ELSE d \o << <<key, value>> >>

\* The source type of _build_entry: the requested one when the source schema has it,
\* else the destination's own name when the source schema has that.
entry_source_type(req, to_type) ==
  IF TruthyStr(req.from_type) /\ Strip(Val(req.from_type)) # ""
     /\ _has_supported_type("from", Strip(Val(req.from_type)))
    THEN Some(Strip(Val(req.from_type)))
  ELSE IF _has_supported_type("from", to_type) THEN Some(to_type)
  ELSE NoneVal

\* The entry of a destination enum: each literal keeps its explicit value, or takes the
\* source literal of the same name, or a placeholder.
enum_entry_fields(dest_enum_literals, src_literals, existing_fields) ==
  [i \in 1..Len(dest_enum_literals) |->
     LET lit == dest_enum_literals[i]
         existing == DictGet(existing_fields, lit)
         match == lower_map_get([j \in 1..Len(src_literals) |-> <<src_literals[j], "">>], lit)
     IN <<lit, IF ~IsNone(existing) /\ ~MappingScaffolder_is_placeholder(Val(existing))
                 THEN Val(existing)
               ELSE IF TruthyStr(match) THEN Val(match)
               ELSE _field_placeholder(lit)>>]

\* The source field of the same name as the destination field, or a placeholder.
field_by_name(from_fields, dest_name) ==
  LET src_name == lower_map_get(from_fields, dest_name) IN
  IF TruthyStr(src_name)
    THEN [spec_value |-> Val(src_name), src_mark |-> Some(Get(from_fields, Val(src_name)))]
  ELSE [spec_value |-> _field_placeholder(dest_name), src_mark |-> NoneVal]

\* The value of a destination field in the suggested entry, and the type of the source
\* field it names: an explicit value is kept, a placeholder or a missing value is
\* replaced by the source field of the same name.
field_spec(existing_spec, from_fields, dest_name) ==
  IF IsNone(existing_spec) THEN field_by_name(from_fields, dest_name)
  ELSE IF MappingScaffolder_is_placeholder(Strip(Val(existing_spec)))
    THEN field_by_name(from_fields, dest_name)
  ELSE IF Upper(Strip(Val(existing_spec))) = DEFAULT_SENTINEL
    THEN [spec_value |-> DEFAULT_SENTINEL, src_mark |-> NoneVal]
  ELSE LET src_name == lower_map_get(from_fields, Strip(Val(existing_spec))) IN
       [spec_value |-> Val(existing_spec),
        src_mark |-> IF TruthyStr(src_name) THEN Some(Get(from_fields, Val(src_name)))
                     ELSE NoneVal]

\* The request for the entry of a nested destination record.
nested_record_request(preferred, dest_mark, src_mark) ==
  LET of_source == IF TruthyStr(src_mark) /\ TruthyDict(get_record_fields("from", Strip(Val(src_mark))))
                   THEN Some(Strip(Val(src_mark))) ELSE NoneVal
      nested_from_type == IF ~IsNone(of_source) THEN of_source
                          ELSE IF TruthyDict(get_record_fields("from", dest_mark)) THEN Some(dest_mark)
                          ELSE NoneVal
      nested_name == IF TruthyStr(DictGet(preferred, dest_mark)) THEN Get(preferred, dest_mark)
                     ELSE _default_name(dest_mark)
  IN MappingRequest(nested_name, dest_mark, nested_from_type, NoneVal)

\* The request for the entry of the enum of a destination field.
nested_enum_request(preferred, dest_mark, src_mark, source_type) ==
  LET src_enum_type ==
        IF TruthyStr(src_mark) /\ TruthyDict(get_enum_literals("from", Strip(Val(src_mark))))
          THEN Some(Strip(Val(src_mark)))
        ELSE IF TruthyStr(source_type) /\ TruthyDict(get_enum_literals("from", Val(source_type)))
          THEN source_type
        ELSE IF TruthyDict(get_enum_literals("from", dest_mark)) THEN Some(dest_mark)
        ELSE NoneVal
      nested_name == IF TruthyStr(DictGet(preferred, dest_mark)) THEN Get(preferred, dest_mark)
                     ELSE _default_name(dest_mark)
  IN MappingRequest(nested_name, dest_mark, src_enum_type, NoneVal)

\* What the loop of _build_entry does after fields[dest_name] = spec_value: the nested
\* request of the field, none, or ValueError.
field_nested(preferred, dest_mark, spec, source_type) ==
  LET src_mark_clean == IF TruthyStr(spec.src_mark) /\ Strip(Val(spec.src_mark)) # ""
                        THEN Some(Strip(Val(spec.src_mark))) ELSE NoneVal
      src_is(kind) ==
        /\ ~IsNone(src_mark_clean)
        /\ CASE kind = "record" -> ~IsNone(get_record_fields("from", Val(src_mark_clean)))
             [] kind = "array" -> TruthyStr(get_array_element_type("from", Val(src_mark_clean)))
             [] kind = "enum" -> TruthyDict(get_enum_literals("from", Val(src_mark_clean)))
  IN IF Upper(spec.spec_value) = DEFAULT_SENTINEL THEN [raised |-> FALSE, nested |-> <<>>]
     ELSE IF ~IsNone(get_record_fields("to", dest_mark))
       THEN [raised |-> FALSE,
             nested |-> <<nested_record_request(preferred, dest_mark, spec.src_mark)>>]
     ELSE IF src_is("record") THEN [raised |-> TRUE, nested |-> <<>>]
     ELSE IF src_is("array") THEN [raised |-> TRUE, nested |-> <<>>]
     ELSE IF TruthyDict(get_enum_literals("to", dest_mark))
       THEN [raised |-> FALSE,
             nested |-> <<nested_enum_request(preferred, dest_mark, spec.src_mark, source_type)>>]
     ELSE IF src_is("enum") THEN [raised |-> TRUE, nested |-> <<>>]
     ELSE [raised |-> FALSE, nested |-> <<>>]

\* The fields and nested requests after one more pass of the loop of _build_entry.
entry_field_added(before, dest_name, spec, after) ==
  IF before.raised \/ after.raised THEN [raised |-> TRUE, fields |-> <<>>, nested |-> <<>>]
  ELSE [raised |-> FALSE,
        fields |-> Append(before.fields, <<dest_name, spec.spec_value>>),
        nested |-> before.nested \o after.nested]

\* One pass of the loop of _build_entry: the value of the field, then its nested request.
entry_field(before, dest_name, dest_mark, spec, preferred, source_type) ==
  entry_field_added(before, dest_name, spec, field_nested(preferred, dest_mark, spec, source_type))

RECURSIVE record_entry_fields(_, _, _, _, _, _)
\* The loop of _build_entry over the first n destination fields.
record_entry_fields(dest_fields, from_fields, existing_fields, preferred, source_type, n) ==
  IF n = 0 THEN [raised |-> FALSE, fields |-> <<>>, nested |-> <<>>]
  ELSE entry_field(record_entry_fields(dest_fields, from_fields, existing_fields, preferred,
                                       source_type, n - 1),
                   dest_fields[n][1], Strip(dest_fields[n][2]),
                   field_spec(DictGet(existing_fields, dest_fields[n][1]), from_fields,
                              dest_fields[n][1]),
                   preferred, source_type)

\* The suggested entry, with the name the destination type is known by.
suggested_entry(preferred, req, to_type, source_type, fields) ==
  RawEntry(IF HasKey(preferred, to_type) THEN Get(preferred, to_type) ELSE req.name,
           IF ~IsNone(source_type) THEN Val(source_type) ELSE _from_placeholder(to_type),
           to_type, fields)

\* The entry of a destination record and its nested requests, after the loop.
record_entry(req, preferred, to_type, source_type, body) ==
  IF body.raised THEN [raised |-> TRUE, entry |-> NoneVal, nested |-> <<>>]
  ELSE [raised |-> FALSE,
        entry |-> Some(suggested_entry(preferred, req, to_type, source_type, body.fields)),
        nested |-> body.nested]

\* _build_entry for the fields and literals the destination type resolves to.
build_entry_of(req, preferred, to_type, dest_fields_raw, dest_enum_literals, source_type) ==
  IF IsNone(dest_fields_raw) /\ dest_enum_literals = <<>>
    THEN [raised |-> TRUE, entry |-> NoneVal, nested |-> <<>>]
  ELSE IF dest_enum_literals # <<>> /\ OrEmpty(dest_fields_raw) = <<>>
    THEN [raised |-> FALSE,
          entry |-> Some(suggested_entry(preferred, req, to_type, source_type,
                      enum_entry_fields(dest_enum_literals,
                        IF IsNone(source_type) THEN <<>>
                        ELSE OrEmpty(get_enum_literals("from", Val(source_type))),
                        OrEmpty(req.existing_fields)))),
          nested |-> <<>>]
  ELSE record_entry(req, preferred, to_type, source_type,
         record_entry_fields(OrEmpty(dest_fields_raw),
                             IF IsNone(source_type) THEN <<>>
                             ELSE OrEmpty(get_record_fields("from", Val(source_type))),
                             OrEmpty(req.existing_fields), preferred, source_type,
                             Len(OrEmpty(dest_fields_raw))))

_build_entry(req, preferred) ==
  build_entry_of(req, preferred, Strip(req.to_type),
                 get_record_fields("to", Strip(req.to_type)),
                 OrEmpty(get_enum_literals("to", Strip(req.to_type))),
                 entry_source_type(req, Strip(req.to_type)))

\* for nested in nested_requests: self._preferred_names.setdefault(nested.to_type, nested.name)
RECURSIVE prefer_all(_, _)
prefer_all(preferred, requests) ==
  IF requests = <<>> THEN preferred
  ELSE prefer_all(SetDefault(preferred, Head(requests).to_type, Head(requests).name),
                  Tail(requests))

RECURSIVE build_queue(_, _, _, _)
\* The loop of build_map after the entry of the first request of the queue is built.
build_queue_built(queue, processed, preferred, result, built) ==
  IF built.raised THEN [raised |-> TRUE, mappings |-> <<>>]
  ELSE build_queue(Tail(queue) \o built.nested, processed, prefer_all(preferred, built.nested),
                   Append(result, Val(built.entry)))

\* (from_key, to_type) of a request
request_key(req) ==
  <<IF IsNone(req.from_type) THEN "" ELSE Strip(Val(req.from_type)), Strip(req.to_type)>>

\* The loop of build_map: the queue of requests, the processed (from, to) keys, the
\* preferred names and the entries built so far.
build_queue(queue, processed, preferred, result) ==
  IF queue = <<>> THEN [raised |-> FALSE, mappings |-> result]
  ELSE IF request_key(Head(queue)) \in processed
    THEN build_queue(Tail(queue), processed, preferred, result)
  ELSE build_queue_built(queue, processed \cup {request_key(Head(queue))}, preferred, result,
                         _build_entry(Head(queue), preferred))

build_map(requests, preferred_names) ==
  build_queue(requests, {}, prefer_all(preferred_names, requests), <<>>)

\* The requests of update_map: one per entry that names a destination type and is not
\* made of placeholders only.
update_requests(mappings_list) ==
  LET wanted == SelectSeq(mappings_list,
                          LAMBDA e : Strip(e.to) # "" /\ ~_entry_all_placeholders(e))
  IN [i \in 1..Len(wanted) |->
        MappingRequest(IF wanted[i].name # "" THEN wanted[i].name ELSE _default_name(wanted[i].to),
                       Strip(wanted[i].to),
                       IF /\ ~MappingScaffolder_is_placeholder(wanted[i].from)
                          /\ _has_supported_type("from", wanted[i].from)
                         THEN Some(wanted[i].from) ELSE NoneVal,
                       Some(wanted[i].fields))]

RECURSIVE update_preferred(_, _)
\* preferred_names[to_type] = name, for every entry that names a destination type
update_preferred(preferred, mappings_list) ==
  IF mappings_list = <<>> THEN preferred
  ELSE LET e == Head(mappings_list) IN
       update_preferred(IF Strip(e.to) = "" THEN preferred
                        ELSE SetItem(preferred, Strip(e.to),
                                     IF e.name # "" THEN e.name ELSE _default_name(e.to)),
                        Tail(mappings_list))

\* {entry["to"]: entry for entry in entries}: the last entry of a destination type
by_to(entries, to_type) ==
  LET at == {i \in 1..Len(entries) : entries[i].to = to_type} IN
  IF at = {} THEN NoneVal ELSE Some(entries[CHOOSE i \in at : \A j \in at : j <= i])

\* The 'from' of an existing entry after the update by a suggestion.
updated_from(existing_from, sugg_from) ==
  IF MappingScaffolder_is_placeholder(existing_from) /\ ~MappingScaffolder_is_placeholder(sugg_from)
    THEN sugg_from
  ELSE IF /\ ~MappingScaffolder_is_placeholder(sugg_from)
          /\ ~MappingScaffolder_is_placeholder(existing_from) /\ existing_from # sugg_from
    THEN sugg_from
  ELSE IF MappingScaffolder_is_placeholder(sugg_from) /\ ~MappingScaffolder_is_placeholder(existing_from)
    THEN sugg_from
  ELSE existing_from

\* The 'from' of an existing entry, were an explicit value never replaced.
updated_from_keeping(existing_from, sugg_from) ==
  IF MappingScaffolder_is_placeholder(existing_from) /\ ~MappingScaffolder_is_placeholder(sugg_from)
    THEN sugg_from
  ELSE existing_from

RECURSIVE updated_fields(_, _, _)
\* The 'fields' of an existing entry after the selective update by the fields of a
\* suggestion, from the i-th suggested field on.
updated_fields(existing_fields, sugg_fields, i) ==
  IF i > Len(sugg_fields) THEN existing_fields
  ELSE LET field_name == sugg_fields[i][1]
           sugg_value == sugg_fields[i][2]
           current_value == DictGet(existing_fields, field_name)
           fills == /\ IsNone(current_value) \/ MappingScaffolder_is_placeholder(Val(current_value))
                    /\ ~MappingScaffolder_is_placeholder(sugg_value)
           resets == /\ MappingScaffolder_is_placeholder(sugg_value)
                     /\ ~IsNone(current_value)
                     /\ ~MappingScaffolder_is_placeholder(Val(current_value))
       IN updated_fields(IF fills \/ resets THEN SetItem(existing_fields, field_name, sugg_value)
                         ELSE existing_fields,
                         sugg_fields, i + 1)

\* An existing entry after the update by the suggestion for its destination type.
updated_entry(existing, suggestion) ==
  [existing EXCEPT !.from = updated_from(@, suggestion.from),
                   !.fields = updated_fields(@, suggestion.fields, 1)]

\* The destination types of a list of entries, in the order of first appearance.
to_types(entries) ==
  LET firsts == SelectSeq([i \in 1..Len(entries) |-> i],
                          LAMBDA i : \A j \in 1..(i - 1) : entries[j].to # entries[i].to)
  IN [k \in 1..Len(firsts) |-> entries[firsts[k]].to]

\* The mapping list after the loop over the suggestions and the removal of the entries
\* that no suggestion names.
merged_mappings(mappings_list, suggestions) ==
  LET kept == SelectSeq(mappings_list, LAMBDA e : e.to = "" \/ ~IsNone(by_to(suggestions, e.to)))
      updated == [i \in 1..Len(kept) |->
                    IF kept[i].to # "" /\ by_to(mappings_list, kept[i].to) = Some(kept[i])
                      THEN updated_entry(kept[i], Val(by_to(suggestions, kept[i].to)))
                    ELSE kept[i]]
      fresh == SelectSeq(to_types(suggestions), LAMBDA t : IsNone(by_to(mappings_list, t)))
  IN updated \o [k \in 1..Len(fresh) |-> Val(by_to(suggestions, fresh[k]))]

\* The mapping list after the merge of the suggestions that build_map returned.
update_with(mappings_list, built) ==
  IF built.raised THEN [raised |-> TRUE, mappings |-> mappings_list]
  ELSE [raised |-> FALSE, mappings |-> merged_mappings(mappings_list, built.mappings)]

\* update_map: the mapping list it leaves in data["mappings"], or ValueError.
update_map(mappings_list) ==
  update_with(mappings_list,
              build_map(update_requests(mappings_list), update_preferred(<<>>, mappings_list)))

(***************************************************************************)
(* Updating a mapping file.  The file holds an entry for T_Out and, in     *)
(* either order, entries for the nested record T_In and the enum T_Enum.   *)
(* The values of 'from' and of the fields are drawn: explicit names (of    *)
(* the namesake, of another source field, a dotted path, a name the source *)
(* schema does not declare), the default sentinel or placeholders.  The    *)
(* update runs on the file it left, again and again.                       *)
(***************************************************************************)
MaxUpdates == 3

ScaffoldFromIndex ==
  [EmptyIndex EXCEPT
     !.records = ("F_In" :> << <<"W", "I32">> >>) @@ ("F_Alt" :> << <<"V", "I32">> >>) @@
                 ("F_Wrap" :> << <<"Inner", "F_In">> >>) @@
                 ("F_Out" :> << <<"Inner", "F_In">>, <<"Other", "F_Alt">>, <<"Wrap", "F_Wrap">>,
                                <<"X", "I32">>, <<"Tag", "F_Enum">> >>),
     !.enums = ("F_Enum" :> <<"Red", "Green">>)]

ScaffoldToIndex ==
  [EmptyIndex EXCEPT
     !.records = ("T_In" :> << <<"V", "I16">> >>) @@
                 ("T_Out" :> << <<"Inner", "T_In">>, <<"X", "I16">>, <<"Tag", "T_Enum">> >>),
     !.enums = ("T_Enum" :> <<"Green", "Red">>)]

OutFroms == {"F_Out", "F_Nope", "<SOURCE_TYPE_FOR_T_OUT>"}
OutInners == {"Inner", "Other", "Wrap.Inner", "__DEFAULT__", "<INNER_INPUT_FIELD>"}
OutXs == {"X", "Inner", "<X_INPUT_FIELD>"}
OutEntries ==
  {RawEntry("Out", from, "T_Out", << <<"Inner", inner>>, <<"X", x>>, <<"Tag", "Tag">> >>) :
     from \in OutFroms, inner \in OutInners, x \in OutXs}
InEntries ==
  {RawEntry("In", from, "T_In", << <<"V", v>> >>) :
     from \in {"F_In", "<SOURCE_TYPE_FOR_T_IN>"}, v \in {"W", "<V_INPUT_FIELD>"}}
EnumEntry == RawEntry("Enum", "F_Enum", "T_Enum", << <<"Green", "Red">>, <<"Red", "<RED_INPUT_FIELD>">> >>)
NestedEntries ==
  {<<>>, <<EnumEntry>>} \cup {<<e>> : e \in InEntries} \cup {<<e, EnumEntry>> : e \in InEntries}

InitScaffold ==
  /\ index = [from |-> ScaffoldFromIndex, to |-> ScaffoldToIndex]
  /\ \E top \in OutEntries, nested \in NestedEntries, first \in BOOLEAN :
       mappings = IF first THEN <<top>> \o nested ELSE nested \o <<top>>
  /\ call = [op |-> "update_map", original |-> mappings, runs |-> 0]
  /\ mapping_pairs = {} /\ needed_array_maps = {} /\ needed_enum_maps = {}
  /\ enum_overrides = <<>> /\ pc = "update" /\ out = NoOutput

\* One run of update_map on the file as the run before left it.
UpdateMap ==
  /\ pc = "update"
  /\ call.runs < MaxUpdates
  /\ \E result \in {update_map(mappings)} :
       /\ mappings' = result.mappings
       /\ pc' = IF result.raised THEN "failed" ELSE pc
  /\ call' = [call EXCEPT !.runs = @ + 1]
  /\ UNCHANGED <<index, mapping_pairs, needed_array_maps, needed_enum_maps, enum_overrides, out>>

NextScaffold == UpdateMap

SpecScaffold == InitScaffold /\ [][NextScaffold]_vars

\* The entry of the file was written with this explicit value and still holds it.
KeepsFrom(before, now) ==
  ~MappingScaffolder_is_placeholder(before.from) => now.from = before.from

KeepsFields(before, now) ==
  \A i \in 1..Len(before.fields) :
    ~MappingScaffolder_is_placeholder(before.fields[i][2]) =>
      DictGet(now.fields, before.fields[i][1]) = Some(before.fields[i][2])

HasExplicit(entry) ==
  \/ ~MappingScaffolder_is_placeholder(entry.from)
  \/ \E i \in 1..Len(entry.fields) : ~MappingScaffolder_is_placeholder(entry.fields[i][2])

\* C27: after one or any number of runs of update_map, every 'from' and every field
\* that had a non-placeholder value in the mapping file still has that value, also when
\* the destination type of its entry is requested again as the nested type of another
\* entry.
C27_UpdateKeepsExplicit ==
  \A i \in 1..Len(call.original) :
    HasExplicit(call.original[i]) =>
      /\ ~IsNone(by_to(mappings, call.original[i].to))
      /\ KeepsFrom(call.original[i], Val(by_to(mappings, call.original[i].to)))
      /\ KeepsFields(call.original[i], Val(by_to(mappings, call.original[i].to)))

(***************************************************************************)
(* Helpers of a run.  The declared conversion F_Top -> T_Top maps an array *)
(* field and, if declared, an enum field.  The array's element is drawn on *)
(* both sides: a scalar, an enum, a record or an array.  The element       *)
(* record has a scalar field V and a field K whose kind is drawn: scalar,  *)
(* enum, array or nested record.  The conversion of the element records is *)
(* declared or not.                                                        *)
(***************************************************************************)
HelperKinds == {"scalar", "enum", "array", "record"}

HelperType(side, kind) ==
  CASE kind = "scalar" -> (IF side = "F" THEN "I32" ELSE "I16")
    [] kind = "enum" -> side \o "_Enum"
    [] kind = "array" -> side \o "_Row"
    [] kind = "record" -> side \o "_Sub"

HelperElems(side) == {IF side = "F" THEN "I32" ELSE "I16", side \o "_Enum", side \o "_Rec", side \o "_Row"}

HelperIndex(side, elem, kind, tagged) ==
  [EmptyIndex EXCEPT
     !.records = (side \o "_Top" :> (<< <<"Data", side \o "_Arr">> >> \o
                                     (IF tagged THEN << <<"Tag", side \o "_Enum">> >> ELSE <<>>))) @@
                 (side \o "_Rec" :> << <<"K", HelperType(side, kind)>>,
                                       <<"V", HelperType(side, "scalar")>> >>) @@
                 (side \o "_Sub" :> << <<"V", HelperType(side, "scalar")>> >>),
     !.arrays = (side \o "_Arr" :> elem) @@ (side \o "_Row" :> HelperType(side, "scalar")),
     !.array_dims = (side \o "_Arr" :> 1) @@ (side \o "_Row" :> 1),
     !.enums = (side \o "_Enum" :> (IF side = "F" THEN <<"Red", "Green">> ELSE <<"Green", "Red">>))]

InitHelpers ==
  /\ \E se \in HelperElems("F"), de \in HelperElems("T"), kind \in HelperKinds,
        tagged \in BOOLEAN, declared \in BOOLEAN :
       /\ index = [from |-> HelperIndex("F", se, kind, tagged),
                   to |-> HelperIndex("T", de, kind, tagged)]
       /\ mappings = << Entry("F_Top", "T_Top",
                              << <<"Data", "Data">> >> \o
                              (IF tagged THEN << <<"Tag", "Tag">> >> ELSE <<>>), <<>>) >> \o
                     (IF declared
                        THEN << Entry("F_Rec", "T_Rec", << <<"K", "K">>, <<"V", "V">> >>, <<>>) >>
                      ELSE <<>>)
  /\ mapping_pairs = {<<mappings[i].from, mappings[i].to>> : i \in 1..Len(mappings)}
  /\ call = IdleCall /\ needed_array_maps = {} /\ needed_enum_maps = {}
  /\ enum_overrides = <<>> /\ pc = "compile" /\ out = NoOutput

SpecHelpers == InitHelpers /\ [][NextGen]_vars

\* The element access the helper of a pair assigns from.
HelperAccess(pair) == Access("A", out.array[pair].assign.dest, <<>>)

\* What value_expr yields for a field pair of the element records of a pair.
FieldByRule(pair, d_ftype, s_name, s_ftype) ==
  value_expr(Some(d_ftype), Some(s_ftype), Select(HelperAccess(pair), s_name), 1).expr

\* C28: in the helper of an array pair whose element types are records without declared
\* conversion, each destination field that has a source field of the same name is
\* converted as value_expr converts that field pair: by the rule of its own kind.
C28_ElementFieldsByKind ==
  \A pair \in DOMAIN out.array :
    (ElementsAreRecords(pair) /\ ElementPair(pair) \notin mapping_pairs) =>
      /\ AssignedExpr(pair).k = "aggregate"
      /\ \A i \in 1..Len(AssignedExpr(pair).parts) :
           \A f \in Range(Val(get_from_fields(SrcElem(pair)))) :
             f[1] = AssignedExpr(pair).parts[i].dest =>
               AssignedExpr(pair).parts[i].expr =
                 FieldByRule(pair, Get(Val(get_to_fields(DstElem(pair))), f[1]), f[1], f[2])

\* C29: once the array need-set is closed, for each of its pairs whose element types are
\* both enums the element pair is in the enum need-set, and the helper of the pair
\* converts the element with a Map call.
C29_EnumElementsHaveHelper ==
  pc = "render" =>
    \A pair \in needed_array_maps :
      (TruthyStr(SrcElem(pair)) /\ TruthyStr(DstElem(pair)) /\ both_enums(DstElem(pair), SrcElem(pair))) =>
        /\ ElementPair(pair) \in needed_enum_maps
        /\ pair \in DOMAIN out.array => AssignedExpr(pair) = MapCall(HelperAccess(pair))

RECURSIVE CalledPairs(_, _, _)
\* The pairs called by one association of an aggregate over two records.
PartPairs(part, to_fields, from_fields) ==
  IF IsNone(matching_source_field(from_fields, part.dest)) THEN {}
  ELSE CalledPairs(part.expr,
                   Some(Get(from_fields, Val(matching_source_field(from_fields, part.dest)))),
                   DictGet(to_fields, part.dest))

\* The (source type, destination type) pairs of the operands of the Map calls of an
\* emitted expression that converts a value of type src_t to type dst_t: an aggregate
\* is read field by field, with the types the two records declare.
CalledPairs(expr, src_t, dst_t) ==
  IF expr.k = "Map" THEN {<<Strip(Shown(src_t)), Strip(Shown(dst_t))>>}
  ELSE IF expr.k = "aggregate"
    THEN UNION {PartPairs(expr.parts[i], OrEmpty(get_to_fields(dst_t)),
                          OrEmpty(get_from_fields(src_t))) : i \in 1..Len(expr.parts)}
  ELSE {}

\* The pairs called by the body of the i-th compiled entry.
EntryCalls(i) ==
  LET entry == mappings[i]
      body == out.record[<<entry.from, entry.to>>]
  IN UNION {CalledPairs(body.associations[j].expr,
                        source_field_type(entry.from, Get(entry.fields, body.associations[j].dest)),
                        dest_field_type(entry.to, body.associations[j].dest)) :
              j \in 1..Len(body.associations)}

RecordCalls ==
  UNION {EntryCalls(i) : i \in {j \in 1..Len(mappings) :
                                  <<mappings[j].from, mappings[j].to>> \in DOMAIN out.record}}

\* The pairs called by the rendered array helpers, whose operand is an element.
ArrayCalls ==
  UNION {CalledPairs(AssignedExpr(pair), SrcElem(pair), DstElem(pair)) : pair \in DOMAIN out.array}

HelperPairs == mapping_pairs \cup needed_array_maps \cup needed_enum_maps

\* C30: once the declared conversions are compiled and the array need-set is closed,
\* the operand of every Map call of a record body or of an array helper has a pair of
\* types that is a declared conversion or a member of one of the two need-sets; and a
\* helper is rendered for the pairs of the need-sets only, one per pair.
C30_NoDanglingCall ==
  pc = "render" =>
    /\ RecordCalls \cup ArrayCalls \subseteq HelperPairs
    /\ DOMAIN out.array \subseteq needed_array_maps
    /\ DOMAIN out.enum \subseteq needed_enum_maps

\* Every helper of a run is rendered: the record body calls the helper of the array
\* field, that helper calls the helper of its elements, which are arrays, and the enum
\* field has its helper.
C30_Witness ==
  /\ pc = "render"
  /\ DOMAIN out.array = needed_array_maps /\ DOMAIN out.enum = needed_enum_maps
  /\ needed_array_maps = {<<"F_Arr", "T_Arr">>, <<"F_Row", "T_Row">>}
  /\ needed_enum_maps = {<<"F_Enum", "T_Enum">>}
  /\ RecordCalls = {<<"F_Arr", "T_Arr">>, <<"F_Enum", "T_Enum">>}
  /\ ArrayCalls = {<<"F_Row", "T_Row">>}

====
